---------------------------- MODULE Spec2Model ----------------------------
(***************************************************************************)
(* Model of src/core/bi.py: the market scheduler (start/stop control and   *)
(* the background worker's tick pipeline), the leveraged-contract engine   *)
(* (open, close, list, liquidation sweep, funding) over the SQLite store   *)
(* and the in-memory position cache, and the spot limit-order book.        *)
(*                                                                         *)
(* Numbers.  The program computes in floats; the model computes the same   *)
(* expressions exactly, in fixed point: prices and credit amounts are      *)
(* integers in thousandths (100.0 is 100000), asset amounts are whole      *)
(* numbers, rates are in permille.  The inputs are chosen so that every    *)
(* division the program performs is exact in this representation.          *)
(*                                                                         *)
(* Threads.  Command handlers are async generators without an await        *)
(* between their first and last statement, so the event loop runs each of  *)
(* them to completion: one handler is one action.  The worker is a real    *)
(* thread: each of its calls is one step, and the liquidation sweep steps  *)
(* once per position of the list it read, so handlers and other workers    *)
(* interleave between the read and each write.  Every store function opens *)
(* its own connection and commits once: one store call is atomic.          *)
(***************************************************************************)
EXTENDS Integers, Sequences, FiniteSets, TLC

(***************************************************************************)
(* Bounds of the model                                                     *)
(***************************************************************************)
MaxWorkers == 2        \* worker threads that may exist at the same time
MaxPositions == 1      \* position ids create_position_id hands out
MaxOrders == 1         \* order ids create_order_id hands out
MaxSpotTrades == 1     \* market buys and sells carried out
MaxStoreFailures == 1  \* store calls that fail
MaxTime == 9000        \* the clock stops here

Workers == 1..MaxWorkers
PositionIds == 1..MaxPositions
Users == {"u1", "u2"}
UserOrder == <<"u1", "u2">>      \* iteration order of the user tables

(***************************************************************************)
(* Program constants (fixed point, see above)                              *)
(***************************************************************************)
COINS == {"PIG"}                         \* the catalogue, cut to one asset
INITIAL_PRICES == [c \in COINS |-> 100000]
INITIAL_BALANCE == 10000000
CONTRACT_FEE == 1                        \* permille
CONTRACT_LEVERAGE == 10
MAX_LEVERAGE == 100
CONTRACT_LIQUIDATION_THRESHOLD == 9      \* tenths
CONTRACT_MAX_POSITION_VALUE == 100000000
PRICE_FLOOR == 10                        \* 0.01

BUY_FEE == 1                             \* permille
SELL_FEE == 20                           \* permille
LIQUIDITY_IMPACT_FACTOR == 10000         \* impact (permille) = value / 10000
LIQUIDITY_MAX_IMPACT == 50               \* permille
LIQUIDITY_MAX_PRESSURE == 500            \* permille
LIQUIDITY_DECAY_RATE == 10               \* percent
VOLATILITY_BASE == [c \in COINS |-> 30]  \* permille
VOLATILITY_RANDOM_RANGE == 5             \* permille
VOLATILITY_MIN_RATIO == 50               \* percent
VOLATILITY_MAX_RATIO == 150              \* percent
ORDER_EXPIRY == 3600                     \* ORDER_EXPIRY_HOURS, in seconds
CONTRACT_FUNDING_RATE_INTERVAL == 3600
EVENT_COOLDOWN == 1200
INACTIVITY_THRESHOLD == 3600
WHITELIST_SESSIONS == {"g1"}

\* Price levels the model lets an asset take, and the composite relative
\* changes (permille) a tick may draw; a step is taken only when it lands on
\* a level.  100 -> 125 is +25%, 125 -> 100 is -20%.
\* The three lowest levels are the floor, a price one -20% step above it and
\* the price that step would give without the floor.
PriceLevels == {9, 10, 12, 80000, 96000, 100000, 120000, 125000}
TotalChanges == {-200, 0, 250}
\* Volatility levels (permille) the model lets an asset take: the base, the
\* two ends of its range, one step inside each end and one step outside;
\* and the increments a tick may draw, the ends and the middle of
\* [-0.005, 0.005].
VolatilityLevels == {10, 15, 20, 30, 40, 45, 50}
VolatilityChanges == {-5, 0, 5}
\* Event shocks (permille), magnitude within [5%, 20%].
EventChanges == {-200, 200}
PressureStarts == {-500, -480, 0, 480, 500}
\* <<direction, amount>> of the rows the position table may hold at the
\* start.
StoredRowArgs == {"long", "short"} \X {1, 2}

\* Arguments the command layer may pass.
CoinArgs == {"PIG", "XXX"}
\* <<coin, direction, amount, leverage>> of a contract open command: both
\* directions at the default leverage (0) and at the largest one, a small and
\* a large amount, and one command per argument the handler refuses.
OpenArgs ==
    ({"PIG"} \X {"long", "short"} \X {1, 1000} \X {0, 100})
    \cup {<<"XXX", "long", 1, 0>>, <<"PIG", "up", 1, 0>>,
          <<"PIG", "long", 1, 101>>}
SpotAmountArgs == {1, 5}
LimitArgs == {0, 90000, 100000, 110000}   \* 0: a market order

NoThread == 0
\* No event thread is alive.
NoEventThreads == [started |-> 0, calling |-> 0, inside |-> 0, sending |-> 0]

\* What market_update_lock holds while an event thread has it (the worker
\* threads are 1..MaxWorkers).
EventThread == MaxWorkers + 1

\* DATA_FILE does not exist.
NoFile == [exists |-> FALSE]

\* The dynamic mean is kept exactly while it is one of the values MeanSteps
\* ticks and event shocks can give it from the initial price; after that it
\* is AnyMean, which stands for every mean (a mean is never negative).
MEAN_GROWTH_RATE == 1         \* permille
MaxMeanSteps == 2
AnyMean == -1

VARIABLES
    market_update_running,   \* the flag the worker loop tests
    market_update_lock,      \* NoThread, or the thread holding the lock
    wpc,                     \* each worker thread's position
    all_positions,           \* each worker's local list in the sweep
    order_users,             \* each worker's list(pending_orders.items())
    current_time,            \* each worker's current_time in the order pass
    remaining_orders,        \* each worker's local remaining_orders
    market_prices,           \* coin -> price
    liquidity_pressure,      \* coin -> pressure (permille)
    current_volatility,      \* coin -> volatility (permille)
    dynamic_means,           \* coin -> dynamic mean, or AnyMean
    user_balance,            \* user -> balance
    user_assets,             \* user -> coin -> [amount, total_cost]
    pending_orders,          \* user -> list of orders
    next_order_id,           \* order ids handed out so far + 1
    spot_trades,             \* market buys and sells carried out so far
    user_contracts,          \* user -> cached list of positions
    contract_positions,      \* store table: rows with a status
    contract_history,        \* store table: closed-position records
    contract_liquidations,   \* store table: liquidation records
    contract_funding,        \* store table: funding payments
    store_failures,          \* store calls that have failed so far
    next_position_id,        \* position ids handed out so far + 1
    now,                     \* the clock (seconds)
    last_funding_rate_time,
    last_event_time,
    group_last_activity,     \* whitelisted group -> time of its last message
    event_threads,           \* event threads not yet finished: those that
                             \* have not reached the lock (started, and
                             \* calling once the text generation is over),
                             \* those inside `with market_update_lock` and
                             \* those about to broadcast (sending)
    last,                    \* what the last command handler answered
    resident,                \* the users user_assets, user_balance and
                             \* pending_orders have an entry for
    data_file,               \* what DATA_FILE holds
    saved                    \* history: the users' entries when DATA_FILE
                             \* was written

sched_vars == <<market_update_running, market_update_lock, wpc>>
local_vars == <<all_positions, order_users, current_time, remaining_orders>>
market_vars == <<market_prices, liquidity_pressure, current_volatility,
                 dynamic_means>>
spot_vars == <<user_assets, pending_orders, next_order_id, spot_trades>>
store_vars == <<contract_positions, contract_history, contract_liquidations,
                contract_funding, store_failures>>
snapshot_vars == <<resident, data_file, saved>>
time_vars == <<now, last_funding_rate_time, last_event_time,
               group_last_activity, event_threads>>
vars == <<market_update_running, market_update_lock, wpc, all_positions,
          order_users, current_time, remaining_orders, market_prices, liquidity_pressure,
          current_volatility, dynamic_means,
          user_balance, user_assets, pending_orders, next_order_id,
          spot_trades, user_contracts, contract_positions, contract_history,
          contract_liquidations, contract_funding, store_failures,
          next_position_id, now,
          last_funding_rate_time, last_event_time, group_last_activity,
          event_threads, last,
          resident, data_file, saved>>

Max(a, b) == IF a >= b THEN a ELSE b
Min(a, b) == IF a <= b THEN a ELSE b

RECURSIVE SeqCount(_, _)
\* number of records of table s about position id
SeqCount(s, id) ==
    IF s = <<>> THEN 0
    ELSE (IF Head(s).position_id = id THEN 1 ELSE 0) + SeqCount(Tail(s), id)

\* What a store call may do: succeed (TRUE), or raise inside the function,
\* which catches the exception and returns its failure value (FALSE).
StoreOutcomes == IF store_failures < MaxStoreFailures THEN BOOLEAN ELSE {TRUE}

StoreCall(db_ok) ==
    store_failures' = IF db_ok THEN store_failures ELSE store_failures + 1

(***************************************************************************)
(* Store (SQLite) operations                                               *)
(***************************************************************************)
\* The status of the row of the position table with this id (ids are
\* UNIQUE), "none" when there is no such row.
StatusOf(id) ==
    LET rows == {i \in 1..Len(contract_positions) :
                    contract_positions[i].position_id = id}
    IN  IF rows = {} THEN "none"
        ELSE contract_positions[CHOOSE i \in rows : TRUE].status

SetStatus(table, id, st) ==
    [i \in 1..Len(table) |->
        IF table[i].position_id = id THEN [table[i] EXCEPT !.status = st]
        ELSE table[i]]

\* add_contract_position: INSERT ... status 'open'
add_contract_position(position) ==
    Append(contract_positions,
           [position_id |-> position.position_id,
            user_id |-> position.user_id,
            coin |-> position.coin,
            direction |-> position.direction,
            amount |-> position.amount,
            entry_price |-> position.entry_price,
            leverage |-> position.leverage,
            margin |-> position.margin,
            liquidation_price |-> position.liquidation_price,
            status |-> "open"])

AsPosition(row) ==
    [position_id |-> row.position_id,
     user_id |-> row.user_id,
     coin |-> row.coin,
     direction |-> row.direction,
     amount |-> row.amount,
     entry_price |-> row.entry_price,
     leverage |-> row.leverage,
     margin |-> row.margin,
     liquidation_price |-> row.liquidation_price]

RECURSIVE SelectOpen(_)
SelectOpen(table) ==
    IF table = <<>> THEN <<>>
    ELSE (IF Head(table).status = "open" THEN <<AsPosition(Head(table))>>
          ELSE <<>>) \o SelectOpen(Tail(table))

RECURSIVE SelectOpenOf(_, _)
SelectOpenOf(table, user_id) ==
    IF table = <<>> THEN <<>>
    ELSE (IF Head(table).status = "open" /\ Head(table).user_id = user_id
          THEN <<AsPosition(Head(table))>> ELSE <<>>)
         \o SelectOpenOf(Tail(table), user_id)

\* get_all_open_positions: SELECT ... WHERE status = 'open'
get_all_open_positions == SelectOpen(contract_positions)

\* A read that does not select by user.
get_contract_positions_of_everyone(user_id) == SelectOpen(contract_positions)

\* get_contract_positions: SELECT ... WHERE user_id = ? AND status = 'open'
\* (the rows come back without user_id; the model keeps the field, which no
\* reader of the cache uses)
get_contract_positions(user_id) == SelectOpenOf(contract_positions, user_id)

\* close_contract_position, the row found: INSERT INTO contract_history, then
\* UPDATE contract_positions SET status = 'closed' WHERE position_id = ?
close_history_insert(id, close_price, pnl, close_fee) ==
    Append(contract_history,
           [position_id |-> id, close_price |-> close_price,
            pnl |-> pnl, close_fee |-> close_fee])

\* add_contract_liquidation: INSERT INTO contract_liquidations
liquidation_insert(position, current_price) ==
    Append(contract_liquidations,
           [position_id |-> position.position_id,
            user_id |-> position.user_id,
            liquidation_price |-> current_price,
            margin_lost |-> position.margin])

(***************************************************************************)
(* Contract arithmetic                                                     *)
(***************************************************************************)
\* The liquidation price at a threshold of the whole margin.
calculate_liquidation_price_whole_margin(entry_price, leverage, direction) ==
    IF direction = "long"
    THEN (entry_price * (leverage - 1)) \div leverage
    ELSE (entry_price * (leverage + 1)) \div leverage

\* entry * (1 -/+ (1 / leverage) * threshold)
calculate_liquidation_price(entry_price, leverage, direction) ==
    IF direction = "long"
    THEN (entry_price * (10 * leverage - CONTRACT_LIQUIDATION_THRESHOLD))
             \div (10 * leverage)
    ELSE (entry_price * (10 * leverage + CONTRACT_LIQUIDATION_THRESHOLD))
             \div (10 * leverage)

RECURSIVE GCD(_, _)
GCD(a, b) == IF b = 0 THEN a ELSE GCD(b, a % b)

Abs(a) == IF a >= 0 THEN a ELSE 0 - a

\* a * b / c rounded toward 0 (c > 0), evaluated with b / c in lowest terms
\* to stay within TLC's integers.
MulDiv(a, b, c) ==
    LET g == GCD(Abs(b), c)
        bb == Abs(b) \div g
        cc == c \div g
        magnitude == (Abs(a) \div cc) * bb + ((Abs(a) % cc) * bb) \div cc
    IN IF (a >= 0) = (b >= 0) THEN magnitude ELSE 0 - magnitude

\* The profit with the leverage left out.
calculate_position_pnl_without_leverage(position, current_price) ==
    IF position.direction = "long"
    THEN MulDiv(position.margin, current_price - position.entry_price,
                position.entry_price)
    ELSE MulDiv(position.margin, position.entry_price - current_price,
                position.entry_price)

\* margin * price_change_pct * leverage, with price_change_pct =
\* (current - entry) / entry for a long and (entry - current) / entry for a
\* short, rounded toward 0 to the model's unit.
calculate_position_pnl(position, current_price) ==
    IF position.direction = "long"
    THEN MulDiv(position.margin * position.leverage,
                current_price - position.entry_price, position.entry_price)
    ELSE MulDiv(position.margin * position.leverage,
                position.entry_price - current_price, position.entry_price)

get_coin_price(coin) == IF coin \in COINS THEN market_prices[coin] ELSE 0

\* value * CONTRACT_FEE
contract_fee(position_value) == (position_value * CONTRACT_FEE) \div 1000

(***************************************************************************)
(* Scheduler control                                                       *)
(***************************************************************************)
FreeThreads == {w \in Workers : wpc[w] \in {"idle", "done"}}

\* bi_start_market_updates: under the lock, return if the flag is set, else
\* set it and start a new worker thread.
bi_start_market_updates ==
    /\ market_update_lock = NoThread
    /\ IF market_update_running
       THEN UNCHANGED <<market_update_running, wpc>>
       ELSE /\ FreeThreads # {}
            /\ market_update_running' = TRUE
            /\ wpc' = [wpc EXCEPT ![CHOOSE w \in FreeThreads :
                                       \A v \in FreeThreads : w <= v] = "loop"]
    /\ UNCHANGED <<snapshot_vars,
                   market_update_lock, local_vars, market_vars, user_balance,
                   spot_vars, user_contracts, store_vars, next_position_id,
                   time_vars, last>>

\* bi_stop_market_updates: under the lock, clear the flag.
bi_stop_market_updates ==
    /\ market_update_lock = NoThread
    /\ market_update_running' = FALSE
    /\ UNCHANGED <<snapshot_vars,
                   market_update_lock, wpc, local_vars, market_vars,
                   user_balance, spot_vars, user_contracts, store_vars,
                   next_position_id, time_vars, last>>


(***************************************************************************)
(* market_update_worker: one thread per started worker                     *)
(***************************************************************************)
\* while market_update_running:
WorkerLoop(w) ==
    /\ wpc[w] = "loop"
    /\ wpc' = [wpc EXCEPT ![w] = IF market_update_running THEN "sleep"
                                 ELSE "done"]
    /\ UNCHANGED <<snapshot_vars,
                   market_update_running, market_update_lock, local_vars,
                   market_vars, user_balance, spot_vars, user_contracts,
                   store_vars, next_position_id, time_vars, last>>

\* time.sleep(UPDATE_INTERVAL) returns and the worker takes the lock; the
\* flag is not read again before the tick.
WorkerSleep(w) ==
    /\ wpc[w] = "sleep"
    /\ market_update_lock = NoThread
    /\ market_update_lock' = w
    /\ wpc' = [wpc EXCEPT ![w] = "update"]
    /\ UNCHANGED <<snapshot_vars,
                   market_update_running, local_vars, market_vars,
                   user_balance, spot_vars, user_contracts, store_vars,
                   next_position_id, time_vars, last>>

\* The mean less the growth of one tick.
mean_growth_falling(coin, mean) ==
    mean - (INITIAL_PRICES[coin] * MEAN_GROWTH_RATE) \div 1000

\* update_market_prices, per coin: dynamic_means[coin] +=
\* INITIAL_PRICES[coin] * MEAN_GROWTH_RATE
mean_growth(coin, mean) ==
    mean + (INITIAL_PRICES[coin] * MEAN_GROWTH_RATE) \div 1000

\* _apply_price_change: new_mean = old_mean * (1 + change_percent)
mean_shift(mean, change_percent) ==
    (mean * (1000 + change_percent)) \div 1000

RECURSIVE MeanReach(_, _)
\* The means at most `steps` ticks and event shocks give from the initial one.
MeanReach(coin, steps) ==
    IF steps = 0 THEN {INITIAL_PRICES[coin]}
    ELSE LET means == MeanReach(coin, steps - 1)
         IN means \cup {mean_growth(coin, mean) : mean \in means}
                  \cup {mean_shift(mean, change_percent) :
                          mean \in means, change_percent \in EventChanges}
MeanLevels == [coin \in COINS |-> MeanReach(coin, MaxMeanSteps)]

\* The mean as the state keeps it.
TrackMean(coin, mean) ==
    IF mean \in MeanLevels[coin] THEN mean ELSE AnyMean

\* dynamic_means after the growth of one tick, every coin
grown_means ==
    [c \in COINS |->
        IF dynamic_means[c] = AnyMean THEN AnyMean
        ELSE TrackMean(c, mean_growth(c, dynamic_means[c]))]

\* dynamic_means after the shock of an event on one coin
shifted_means(coin, change_percent) ==
    [dynamic_means EXCEPT ![coin] =
        IF @ = AnyMean THEN AnyMean
        ELSE TrackMean(coin, mean_shift(@, change_percent))]

\* The new price without max(0.01, ...).
new_price_without_floor(current_price, total_change) ==
    (current_price * (1000 + total_change)) \div 1000

\* update_market_prices, per coin: new_price = current_price * (1 +
\* total_change), floored at 0.01.  total_change = random_change +
\* reversion_force + liquidity_force is drawn from TotalChanges.
new_price(current_price, total_change) ==
    Max(PRICE_FLOOR, (current_price * (1000 + total_change)) \div 1000)

\* A decrement that is never less than one unit while there is pressure.
decay_step_at_least_one(magnitude) ==
    IF magnitude > 0
    THEN Max(1, (magnitude * LIQUIDITY_DECAY_RATE + 50) \div 100)
    ELSE 0

\* LIQUIDITY_DECAY_RATE * abs(pressure): the product is rounded to the
\* nearest value the representation has (a whole permille here, a double in
\* the program), and the stored rate is a little above one tenth, so a tie
\* rounds up.
decay_step(magnitude) == (magnitude * LIQUIDITY_DECAY_RATE + 50) \div 100

\* A decay that subtracts whatever the sign of the pressure.
decay_without_sign(pressure) == pressure - decay_step(Abs(pressure))

\* decay_liquidity_pressure, per coin: the pressure less (or plus)
\* LIQUIDITY_DECAY_RATE of its magnitude, never past 0
decay(pressure) ==
    IF pressure > 0
    THEN Max(0, pressure - decay_step(pressure))
    ELSE IF pressure < 0
    THEN Min(0, pressure + decay_step(0 - pressure))
    ELSE pressure

\* The volatility plus random_change, not kept within any range.
update_volatility_without_range(coin, random_change) ==
    current_volatility[coin] + random_change

\* update_volatility, per coin: the volatility plus random_change, kept
\* within VOLATILITY_MIN_RATIO and VOLATILITY_MAX_RATIO of the base
update_volatility(coin, random_change) ==
    LET base_volatility == VOLATILITY_BASE[coin]
        new_volatility == current_volatility[coin] + random_change
        min_volatility == (base_volatility * VOLATILITY_MIN_RATIO) \div 100
        max_volatility == (base_volatility * VOLATILITY_MAX_RATIO) \div 100
    IN Max(min_volatility, Min(new_volatility, max_volatility))

\* update_volatility() that leaves the `with` block.
WorkerVolatility_releasing(w) ==
    /\ wpc[w] = "update"
    /\ market_update_lock = w
    /\ \E rc \in [COINS -> VolatilityChanges] :
          /\ \A c \in COINS : update_volatility(c, rc[c]) \in VolatilityLevels
          /\ current_volatility' =
                 [c \in COINS |-> update_volatility(c, rc[c])]
    /\ market_update_lock' = NoThread
    /\ wpc' = [wpc EXCEPT ![w] = "prices"]
    /\ UNCHANGED <<snapshot_vars,
                   market_update_running, local_vars,
                   market_prices, liquidity_pressure, dynamic_means,
                   user_balance, spot_vars,
                   user_contracts, store_vars, next_position_id, time_vars,
                   last>>

\* with market_update_lock: update_volatility() has returned and the worker
\* is about to call update_market_prices(), the lock still held.
WorkerVolatility(w) ==
    /\ wpc[w] = "update"
    /\ market_update_lock = w
    /\ \E rc \in [COINS -> VolatilityChanges] :
          /\ \A c \in COINS : update_volatility(c, rc[c]) \in VolatilityLevels
          /\ current_volatility' =
                 [c \in COINS |-> update_volatility(c, rc[c])]
    /\ wpc' = [wpc EXCEPT ![w] = "prices"]
    /\ UNCHANGED <<snapshot_vars,
                   market_update_running, market_update_lock, local_vars,
                   market_prices, liquidity_pressure, dynamic_means,
                   user_balance, spot_vars,
                   user_contracts, store_vars, next_position_id, time_vars,
                   last>>

\* The price update leaving its block without releasing the lock.
WorkerPrices_keeping_lock(w) ==
    /\ wpc[w] = "prices"
    /\ market_update_lock = w
    /\ liquidity_pressure' = [c \in COINS |-> decay(liquidity_pressure[c])]
    /\ dynamic_means' = grown_means
    /\ \E tc \in [COINS -> TotalChanges] :
          /\ \A c \in COINS : new_price(market_prices[c], tc[c]) \in PriceLevels
          /\ market_prices' =
                 [c \in COINS |-> new_price(market_prices[c], tc[c])]
    /\ order_users' = [order_users EXCEPT ![w] = UserOrder]
    /\ current_time' = [current_time EXCEPT ![w] = now]
    /\ wpc' = [wpc EXCEPT ![w] = "orders"]
    /\ UNCHANGED <<snapshot_vars, market_update_lock,
                   market_update_running, all_positions, remaining_orders,
                   current_volatility, user_balance, spot_vars,
                   user_contracts, store_vars, next_position_id, time_vars,
                   last>>

\* with market_update_lock: update_market_prices() (the pressure decays,
\* then every price moves) and the end of the block, which releases the
\* lock.  The worker then enters check_and_execute_pending_orders, whose
\* first statements read the clock and list the users.
WorkerPrices(w) ==
    /\ wpc[w] = "prices"
    /\ market_update_lock = w
    /\ liquidity_pressure' = [c \in COINS |-> decay(liquidity_pressure[c])]
    /\ dynamic_means' = grown_means
    /\ \E tc \in [COINS -> TotalChanges] :
          /\ \A c \in COINS : new_price(market_prices[c], tc[c]) \in PriceLevels
          /\ market_prices' =
                 [c \in COINS |-> new_price(market_prices[c], tc[c])]
    /\ market_update_lock' = NoThread
    /\ order_users' = [order_users EXCEPT ![w] = UserOrder]
    /\ current_time' = [current_time EXCEPT ![w] = now]
    /\ wpc' = [wpc EXCEPT ![w] = "orders"]
    /\ UNCHANGED <<snapshot_vars,
                   market_update_running, all_positions, remaining_orders,
                   current_volatility, user_balance, spot_vars,
                   user_contracts, store_vars, next_position_id, time_vars,
                   last>>

\* with market_update_lock: update_volatility(); update_market_prices(), as
\* one step (WorkerVolatility, then WorkerPrices).
\* The dynamic mean grows; it enters the price only through total_change,
\* which is drawn here.
\* The worker then enters check_and_execute_pending_orders, whose first
\* statements read the clock and list the users.
WorkerUpdate(w) ==
    /\ wpc[w] = "update"
    /\ market_update_lock = w
    /\ \E rc \in [COINS -> VolatilityChanges] :
          /\ \A c \in COINS : update_volatility(c, rc[c]) \in VolatilityLevels
          /\ current_volatility' =
                 [c \in COINS |-> update_volatility(c, rc[c])]
    /\ liquidity_pressure' = [c \in COINS |-> decay(liquidity_pressure[c])]
    /\ dynamic_means' = grown_means
    /\ \E tc \in [COINS -> TotalChanges] :
          /\ \A c \in COINS : new_price(market_prices[c], tc[c]) \in PriceLevels
          /\ market_prices' =
                 [c \in COINS |-> new_price(market_prices[c], tc[c])]
    /\ market_update_lock' = NoThread
    /\ order_users' = [order_users EXCEPT ![w] = UserOrder]
    /\ current_time' = [current_time EXCEPT ![w] = now]
    /\ wpc' = [wpc EXCEPT ![w] = "orders"]
    /\ UNCHANGED <<snapshot_vars,
                   market_update_running, all_positions, remaining_orders,
                   user_balance, spot_vars, user_contracts, store_vars,
                   next_position_id, time_vars, last>>

(***************************************************************************)
(* check_and_execute_pending_orders                                        *)
(***************************************************************************)
\* A pass that drops no order.
NotExpired_keeping_all(orders, time) == orders

RECURSIVE NotExpired(_, _)
\* orders minus expired_orders = [o for o in orders if o.expires_at <
\* current_time]
NotExpired(orders, time) ==
    IF orders = <<>> THEN <<>>
    ELSE (IF Head(orders).expires_at < time THEN <<>>
          ELSE <<Head(orders)>>) \o NotExpired(Tail(orders), time)

\* The price condition of an order.
order_triggers(order, current_price) ==
    IF order.type = "buy" THEN current_price <= order.price
    ELSE current_price >= order.price

\* The debit of a fill without the fee.
buy_total_without_fee(amount, price) == amount * price

\* total_with_fee = total_cost + total_cost * BUY_FEE
buy_total_with_fee(amount, price) ==
    amount * price + (amount * price * BUY_FEE) \div 1000

sell_net_income(amount, price) ==
    amount * price - (amount * price * SELL_FEE) \div 1000

\* Holding after buying amount at price.
holding_after_buy(holding, amount, price) ==
    [amount |-> holding.amount + amount,
     total_cost |-> holding.total_cost + amount * price]

\* Holding after selling amount: the cost basis shrinks by the share sold.
holding_after_sell(holding, amount) ==
    [amount |-> holding.amount - amount,
     total_cost |-> IF holding.amount > 0
                    THEN (holding.total_cost * (holding.amount - amount))
                             \div holding.amount
                    ELSE 0]

RECURSIVE MatchOrders_retrying(_, _, _)
\* A matching loop that keeps an order whose precondition fails.
MatchOrders_retrying(orders, st, prices) ==
    IF orders = <<>> THEN st
    ELSE
      LET order == Head(orders)
          coin == order.coin
          current_price == prices[coin]
          next ==
            IF ~order_triggers(order, current_price)
            THEN [st EXCEPT !.remaining = Append(@, order)]
            ELSE IF order.type = "buy"
            THEN IF st.balance >= buy_total_with_fee(order.amount, order.price)
                 THEN [st EXCEPT
                         !.balance = @ - buy_total_with_fee(order.amount,
                                                            order.price),
                         !.assets[coin] = holding_after_buy(@, order.amount,
                                                            order.price)]
                 ELSE [st EXCEPT !.remaining = Append(@, order)]
            ELSE IF st.assets[coin].amount >= order.amount
                 THEN [st EXCEPT
                         !.assets[coin] = holding_after_sell(@, order.amount),
                         !.balance = @ + sell_net_income(order.amount,
                                                         order.price)]
                 ELSE [st EXCEPT !.remaining = Append(@, order)]
      IN MatchOrders_retrying(Tail(orders), next, prices)

RECURSIVE MatchOrders(_, _, _)
\* The loop `for order in orders` for one user: st = [balance, assets,
\* remaining] is threaded through the orders in list order.
MatchOrders(orders, st, prices) ==
    IF orders = <<>> THEN st
    ELSE
      LET order == Head(orders)
          coin == order.coin
          current_price == prices[coin]
          next ==
            IF ~order_triggers(order, current_price)
            THEN [st EXCEPT !.remaining = Append(@, order)]
            ELSE IF order.type = "buy"
            THEN IF st.balance >= buy_total_with_fee(order.amount, order.price)
                 THEN [st EXCEPT
                         !.balance = @ - buy_total_with_fee(order.amount,
                                                            order.price),
                         !.assets[coin] = holding_after_buy(@, order.amount,
                                                            order.price)]
                 ELSE st
            ELSE IF st.assets[coin].amount >= order.amount
                 THEN [st EXCEPT
                         !.assets[coin] = holding_after_sell(@, order.amount),
                         !.balance = @ + sell_net_income(order.amount,
                                                         order.price)]
                 ELSE st
      IN MatchOrders(Tail(orders), next, prices)

\* The loop over the users goes on with the rest of them, or the function
\* returns (its locals are gone).
AfterOrders(w, rest) ==
    /\ order_users' = [order_users EXCEPT ![w] = rest]
    /\ current_time' = [current_time EXCEPT
                           ![w] = IF rest = <<>> THEN 0 ELSE @]
    /\ wpc' = [wpc EXCEPT ![w] = IF rest = <<>> THEN "liq" ELSE "orders"]

\* One pass of `for user_id, orders in list(pending_orders.items())` up to,
\* and not including, `pending_orders[user_id] = remaining_orders`.
WorkerOrdersMatch(w) ==
    /\ wpc[w] = "orders"
    /\ order_users[w] # <<>>
    /\ LET user_id == Head(order_users[w])
           orders == pending_orders[user_id]
       IN IF orders = <<>>
          THEN /\ AfterOrders(w, Tail(order_users[w]))
               /\ UNCHANGED <<remaining_orders, user_balance, user_assets,
                              pending_orders>>
          ELSE LET live == NotExpired(orders, current_time[w])
                   st == MatchOrders(live,
                             [balance |-> user_balance[user_id],
                              assets |-> user_assets[user_id],
                              remaining |-> <<>>],
                             market_prices)
               IN /\ pending_orders' =
                         [pending_orders EXCEPT ![user_id] = live]
                  /\ user_balance' =
                         [user_balance EXCEPT ![user_id] = st.balance]
                  /\ user_assets' =
                         [user_assets EXCEPT ![user_id] = st.assets]
                  /\ remaining_orders' =
                         [remaining_orders EXCEPT ![w] = st.remaining]
                  /\ wpc' = [wpc EXCEPT ![w] = "orders_assign"]
                  /\ UNCHANGED <<order_users, current_time>>
    /\ UNCHANGED <<snapshot_vars,
                   market_update_running, market_update_lock, all_positions,
                   market_vars, next_order_id, spot_trades, user_contracts,
                   store_vars, next_position_id, time_vars, last>>

\* pending_orders[user_id] = remaining_orders
WorkerOrdersAssign(w) ==
    /\ wpc[w] = "orders_assign"
    /\ pending_orders' = [pending_orders EXCEPT
                             ![Head(order_users[w])] = remaining_orders[w]]
    /\ remaining_orders' = [remaining_orders EXCEPT ![w] = <<>>]
    /\ AfterOrders(w, Tail(order_users[w]))
    /\ UNCHANGED <<snapshot_vars,
                   market_update_running, market_update_lock, all_positions,
                   market_vars, user_balance, user_assets, next_order_id,
                   spot_trades, user_contracts, store_vars, next_position_id,
                   time_vars, last>>

\* check_and_execute_liquidations: all_positions = get_all_open_positions()
\* (an empty list when the store call fails)
WorkerLiqRead(w) ==
    /\ wpc[w] = "liq"
    /\ \E db_ok \in StoreOutcomes :
          LET rows == IF db_ok THEN get_all_open_positions ELSE <<>> IN
          /\ StoreCall(db_ok)
          /\ all_positions' = [all_positions EXCEPT ![w] = rows]
          /\ wpc' = [wpc EXCEPT ![w] = IF rows = <<>> THEN "funding"
                                       ELSE "liq_loop"]
    /\ UNCHANGED <<snapshot_vars,
                   market_update_running, market_update_lock, order_users,
                   current_time, remaining_orders, market_vars, user_balance,
                   spot_vars,
                   user_contracts, contract_positions, contract_history,
                   contract_liquidations, contract_funding, next_position_id,
                   time_vars, last>>

\* check_and_execute_liquidations: one pass of `for position in
\* all_positions`: the price is read now, the row was read before.
WorkerLiqStep(w) ==
    /\ wpc[w] = "liq_loop"
    /\ all_positions[w] # <<>>
    /\ LET position == Head(all_positions[w])
           current_price == get_coin_price(position.coin)
       IN  IF \/ /\ position.direction = "long"
                 /\ current_price <= position.liquidation_price
              \/ /\ position.direction = "short"
                 /\ current_price >= position.liquidation_price
           THEN \E db_ok \in StoreOutcomes :
                  /\ StoreCall(db_ok)
                  /\ IF db_ok
                     THEN /\ contract_liquidations' =
                                 liquidation_insert(position, current_price)
                          /\ contract_positions' =
                                 SetStatus(contract_positions, position.position_id,
                                           "liquidated")
                     ELSE UNCHANGED <<contract_positions,
                                      contract_liquidations>>
           ELSE UNCHANGED <<contract_positions, contract_liquidations,
                            store_failures>>
    /\ all_positions' = [all_positions EXCEPT ![w] = Tail(@)]
    /\ wpc' = [wpc EXCEPT ![w] = IF Tail(all_positions[w]) = <<>>
                                 THEN "funding" ELSE "liq_loop"]
    /\ UNCHANGED <<snapshot_vars,
                   market_update_running, market_update_lock, order_users,
                   current_time, remaining_orders, market_vars, user_balance,
                   spot_vars,
                   user_contracts, contract_history, contract_funding,
                   next_position_id, time_vars, last>>

(***************************************************************************)
(* Contract command handlers                                               *)
(***************************************************************************)
\* What a handler answers: the message it yields (result) and, where it
\* called the store to write, what that call returned (store).
Answer(op, result, store) == [op |-> op, result |-> result, store |-> store]

\* init_user: the user has an entry in every table from now on.  The entries
\* of a user who has none yet are kept at the values init_user gives them.
init_user(user_id) ==
    /\ resident' = resident \cup {user_id}
    /\ UNCHANGED <<data_file, saved>>

\* A handler that yields an error message and returns.
Rejected(op, result) ==
    /\ last' = Answer(op, result, "none")
    /\ UNCHANGED <<sched_vars, local_vars, market_vars, user_balance,
                   spot_vars, user_contracts, store_vars, next_position_id,
                   time_vars>>

\* The limit test left out: no position value is too large.
exceeds_max_position_never(position_value) == FALSE

\* bi_contract_open: position_value > CONTRACT_MAX_POSITION_VALUE
exceeds_max_position(position_value) ==
    position_value > CONTRACT_MAX_POSITION_VALUE

\* bi_contract_open.  db_ok: whether add_contract_position's INSERT succeeds;
\* its return value is recorded in the answer, the handler does not read it.
bi_contract_open(user_id, coin, direction, amount, leverage) ==
    init_user(user_id) /\
    LET lev == IF leverage <= 0 THEN CONTRACT_LEVERAGE ELSE leverage
        current_price == get_coin_price(coin)
        position_value == amount * current_price
        margin == position_value \div lev
        fee == contract_fee(position_value)
        total_required == margin + fee
        position ==
            [position_id |-> next_position_id,
             user_id |-> user_id,
             coin |-> coin,
             direction |-> direction,
             amount |-> amount,
             entry_price |-> current_price,
             leverage |-> lev,
             margin |-> margin,
             liquidation_price |->
                 calculate_liquidation_price(current_price, lev, direction)]
    IN
    IF coin \notin COINS THEN Rejected("open", "UnknownAsset")
    ELSE IF direction \notin {"long", "short"}
    THEN Rejected("open", "InvalidDirection")
    ELSE IF lev > MAX_LEVERAGE THEN Rejected("open", "InvalidLeverage")
    ELSE IF exceeds_max_position(position_value)
    THEN Rejected("open", "PositionValueExceeded")
    ELSE IF user_balance[user_id] < total_required
    THEN Rejected("open", "InsufficientBalance")
    ELSE
        /\ next_position_id <= MaxPositions
        /\ user_balance' = [user_balance EXCEPT ![user_id] = @ - total_required]
        /\ next_position_id' = next_position_id + 1
        /\ \E db_ok \in StoreOutcomes :
              /\ StoreCall(db_ok)
              /\ contract_positions' =
                     IF db_ok THEN add_contract_position(position)
                     ELSE contract_positions
              /\ last' = Answer("open", "ok",
                                IF db_ok THEN "true" ELSE "false")
        /\ user_contracts' =
               [user_contracts EXCEPT ![user_id] = Append(@, position)]
        /\ UNCHANGED <<sched_vars, local_vars, market_vars, spot_vars,
                       contract_history, contract_liquidations,
                       contract_funding, time_vars>>

\* The payout with the close fee left out.
margin_return_without_fee(position, current_price) ==
    position.margin + calculate_position_pnl(position, current_price)

\* bi_contract_close: margin_return = margin + pnl - close_fee
margin_return(position, current_price) ==
    position.margin + calculate_position_pnl(position, current_price)
        - contract_fee(position.amount * current_price)

\* bi_contract_close: the cache entry the lookup loop stops at
CacheIndex(positions, position_id) ==
    IF \E i \in 1..Len(positions) : positions[i].position_id = position_id
    THEN CHOOSE i \in 1..Len(positions) :
             /\ positions[i].position_id = position_id
             /\ \A j \in 1..(i - 1) : positions[j].position_id # position_id
    ELSE 0

\* bi_contract_close.  db_ok: whether close_contract_position's statements
\* succeed; it returns True only if they do and it found an open row.  Its
\* return value is recorded in the answer, the handler does not read it.
bi_contract_close(user_id, position_id) ==
    init_user(user_id) /\
    LET positions == user_contracts[user_id]
        i == CacheIndex(positions, position_id)
    IN
    IF i = 0 THEN Rejected("close", "PositionNotFound")
    ELSE
        LET position == positions[i]
            current_price == get_coin_price(position.coin)
            pnl == calculate_position_pnl(position, current_price)
            close_fee == contract_fee(position.amount * current_price)
        IN
        /\ user_balance' = [user_balance EXCEPT ![user_id] =
                               @ + margin_return(position, current_price)]
        /\ \E db_ok \in StoreOutcomes :
              LET closed == db_ok /\ StatusOf(position_id) = "open" IN
              /\ StoreCall(db_ok)
              /\ IF closed
                 THEN /\ contract_history' = close_history_insert(
                              position_id, current_price, pnl, close_fee)
                      /\ contract_positions' =
                             SetStatus(contract_positions, position_id, "closed")
                 ELSE UNCHANGED <<contract_history, contract_positions>>
              /\ last' = Answer("close", "ok",
                                IF closed THEN "true" ELSE "false")
        /\ user_contracts' = [user_contracts EXCEPT ![user_id] =
                              SubSeq(@, 1, i - 1) \o SubSeq(@, i + 1, Len(@))]
        /\ UNCHANGED <<sched_vars, local_vars, market_vars, spot_vars,
                       contract_liquidations, contract_funding,
                       next_position_id, time_vars>>

\* bi_contract_positions: the cache is replaced by what the store returns
\* (an empty list when the store call fails).
bi_contract_positions(user_id) ==
    /\ init_user(user_id)
    /\ \E db_ok \in StoreOutcomes :
          /\ StoreCall(db_ok)
          /\ user_contracts' =
                 [user_contracts EXCEPT ![user_id] =
                     IF db_ok THEN get_contract_positions(user_id) ELSE <<>>]
    /\ last' = Answer("positions", "ok", "none")
    /\ UNCHANGED <<sched_vars, local_vars, market_vars, user_balance,
                   spot_vars, contract_positions, contract_history,
                   contract_liquidations, contract_funding, next_position_id,
                   time_vars>>

(***************************************************************************)
(* Funding settlement                                                      *)
(***************************************************************************)

RECURSIVE Notional(_, _, _, _)
\* total_long_value or total_short_value of calculate_funding_rate
Notional(positions, coin, direction, current_price) ==
    IF positions = <<>> THEN 0
    ELSE (IF Head(positions).coin = coin /\ Head(positions).direction = direction
          THEN Head(positions).amount * current_price ELSE 0)
         + Notional(Tail(positions), coin, direction, current_price)

\* The fraction num / den in lowest terms (den > 0).
Fraction(num, den) ==
    LET g == GCD(Abs(num), den) IN [num |-> num \div g, den |-> den \div g]

\* The rate with the sides exchanged.
calculate_funding_rate_reversed(coin, positions) ==
    LET current_price == get_coin_price(coin)
        total_long_value == Notional(positions, coin, "long", current_price)
        total_short_value == Notional(positions, coin, "short", current_price)
        total_value == total_long_value + total_short_value
    IN IF total_value = 0 THEN [num |-> 0, den |-> 1]
       ELSE Fraction(total_short_value - total_long_value, total_value)

\* calculate_funding_rate: imbalance * 0.001 clamped to [-0.001, 0.001], 0
\* without positions.  The result is the exact fraction, in thousandths:
\* [num, den] stands for the rate (num / den) * 0.001.
calculate_funding_rate(coin, positions) ==
    LET current_price == get_coin_price(coin)
        total_long_value == Notional(positions, coin, "long", current_price)
        total_short_value == Notional(positions, coin, "short", current_price)
        total_value == total_long_value + total_short_value
        imbalance == Fraction(total_long_value - total_short_value, total_value)
    IN IF total_value = 0 THEN [num |-> 0, den |-> 1]
       ELSE IF imbalance.num > imbalance.den THEN [num |-> 1, den |-> 1]
       ELSE IF imbalance.num < 0 - imbalance.den THEN [num |-> -1, den |-> 1]
       ELSE imbalance

\* position_value * funding_rate, rounded toward 0 to the model's unit
funding_fee(position, current_price, funding_rate) ==
    LET a == ((position.amount * current_price) \div 1000) * funding_rate.num
        b == funding_rate.den
    IN  IF a >= 0 THEN a \div b ELSE 0 - ((0 - a) \div b)

RECURSIVE ApplyFunding(_, _, _, _)
\* The loop `for position in all_positions` of apply_funding_rates for one
\* coin: st = [balance, funding, raised] after the payments.  The update of
\* user_balance[user_id] raises KeyError when the user has no entry; the
\* loop ends there (raised) with the payments made so far.
ApplyFunding(positions, coin, funding_rate, st) ==
    IF positions = <<>> \/ st.raised THEN st
    ELSE LET position == Head(positions)
             fee == funding_fee(position, get_coin_price(coin), funding_rate)
             next ==
               IF position.coin # coin THEN st
               ELSE IF position.user_id \notin resident
               THEN [st EXCEPT !.raised = TRUE]
               ELSE IF position.direction = "long"
               THEN [balance |-> [st.balance EXCEPT ![position.user_id] = @ - fee],
                     funding |-> Append(st.funding,
                         [position_id |-> position.position_id,
                          user_id |-> position.user_id, amount |-> fee,
                          rate |-> funding_rate, payment_type |-> "pay",
                          paid_at |-> now]),
                     raised |-> FALSE]
               ELSE [balance |-> [st.balance EXCEPT ![position.user_id] = @ + fee],
                     funding |-> Append(st.funding,
                         [position_id |-> position.position_id,
                          user_id |-> position.user_id, amount |-> fee,
                          rate |-> funding_rate, payment_type |-> "receive",
                          paid_at |-> now]),
                     raised |-> FALSE]
         IN ApplyFunding(Tail(positions), coin, funding_rate, next)

\* apply_funding_rates for the one coin of the catalogue.  db_ok: whether
\* the store answers (its reads return an empty list otherwise).
\* An exception leaves apply_funding_rates and the tick: the worker is in
\* the except clause of its loop.
WorkerFunding(w) ==
    /\ wpc[w] = "funding"
    /\ IF now - last_funding_rate_time < CONTRACT_FUNDING_RATE_INTERVAL
       THEN /\ UNCHANGED <<last_funding_rate_time, user_balance,
                           contract_funding, store_failures>>
            /\ wpc' = [wpc EXCEPT ![w] = "event"]
       ELSE /\ last_funding_rate_time' = now
            /\ \E db_ok \in StoreOutcomes :
                 LET positions == IF db_ok THEN get_all_open_positions ELSE <<>>
                     coin == CHOOSE c \in COINS : TRUE
                     funding_rate == calculate_funding_rate(coin, positions)
                     st == ApplyFunding(positions, coin, funding_rate,
                               [balance |-> user_balance,
                                funding |-> contract_funding,
                                raised |-> FALSE])
                 IN /\ StoreCall(db_ok)
                    /\ IF funding_rate.num = 0
                       THEN /\ UNCHANGED <<user_balance, contract_funding>>
                            /\ wpc' = [wpc EXCEPT ![w] = "event"]
                       ELSE /\ user_balance' = st.balance
                            /\ contract_funding' = st.funding
                            /\ wpc' = [wpc EXCEPT ![w] =
                                          IF st.raised THEN "except"
                                          ELSE "event"]
    /\ UNCHANGED <<snapshot_vars,
                   market_update_running, market_update_lock, local_vars,
                   market_vars, spot_vars, user_contracts, contract_positions,
                   contract_history, contract_liquidations, next_position_id,
                   now, last_event_time, group_last_activity, event_threads,
                   last>>

\* An except clause that ends the thread.
WorkerExcept_ends_thread(w) ==
    /\ wpc[w] = "except"
    /\ wpc' = [wpc EXCEPT ![w] = "done"]
    /\ UNCHANGED <<snapshot_vars,
                   market_update_running, market_update_lock, local_vars,
                   market_vars, user_balance, spot_vars, user_contracts,
                   store_vars, next_position_id, time_vars, last>>

\* except Exception: the error is logged, time.sleep(10) returns and the
\* worker is at the test of its loop again.
WorkerExcept(w) ==
    /\ wpc[w] = "except"
    /\ wpc' = [wpc EXCEPT ![w] = "loop"]
    /\ UNCHANGED <<snapshot_vars,
                   market_update_running, market_update_lock, local_vars,
                   market_vars, user_balance, spot_vars, user_contracts,
                   store_vars, next_position_id, time_vars, last>>

\* The positions of a worker inside the try block of a tick, after the
\* sleep: the price update, the order matching, the liquidation sweep, the
\* funding settlement and the event trigger.
TickSteps ==
    {"update", "prices", "orders", "orders_assign", "liq", "liq_loop",
     "funding", "funding_apply", "event", "event_start"}

\* The place of a position in the try block: 1 update_volatility, 2
\* update_market_prices, 3 check_and_execute_pending_orders, 4
\* check_and_execute_liquidations, 5 apply_funding_rates, 6
\* try_trigger_random_event.
TickOrder(position) ==
    CASE position = "update" -> 1
      [] position = "prices" -> 2
      [] position \in {"orders", "orders_assign"} -> 3
      [] position \in {"liq", "liq_loop"} -> 4
      [] position \in {"funding", "funding_apply"} -> 5
      [] position \in {"event", "event_start"} -> 6

\* A statement of the tick raises before the step's effects: the frames of
\* the tick are left (`with` releases the lock, the locals are gone) and the
\* worker is in the except clause of its loop.
WorkerRaise(w) ==
    /\ wpc[w] \in TickSteps
    /\ wpc' = [wpc EXCEPT ![w] = "except"]
    /\ market_update_lock' =
          IF market_update_lock = w THEN NoThread ELSE market_update_lock
    /\ all_positions' = [all_positions EXCEPT ![w] = <<>>]
    /\ order_users' = [order_users EXCEPT ![w] = <<>>]
    /\ remaining_orders' = [remaining_orders EXCEPT ![w] = <<>>]
    /\ UNCHANGED <<snapshot_vars,
                   market_update_running, current_time, market_vars,
                   user_balance, spot_vars, user_contracts, store_vars,
                   next_position_id, time_vars, last>>

\* apply_funding_rates up to its test: the clock is read and compared with
\* last_funding_rate_time; the function returns when the interval has not
\* passed.
WorkerFundingTest(w) ==
    /\ wpc[w] = "funding"
    /\ IF now - last_funding_rate_time < CONTRACT_FUNDING_RATE_INTERVAL
       THEN /\ wpc' = [wpc EXCEPT ![w] = "event"]
            /\ UNCHANGED current_time
       ELSE /\ wpc' = [wpc EXCEPT ![w] = "funding_apply"]
            /\ current_time' = [current_time EXCEPT ![w] = now]
    /\ UNCHANGED <<snapshot_vars,
                   market_update_running, market_update_lock, all_positions,
                   order_users, remaining_orders, market_vars, user_balance,
                   spot_vars, user_contracts, store_vars, next_position_id,
                   time_vars, last>>

\* apply_funding_rates after its test: last_funding_rate_time =
\* current_time, then the payments for the one coin of the catalogue.
WorkerFundingApply(w) ==
    /\ wpc[w] = "funding_apply"
    /\ last_funding_rate_time' = current_time[w]
    /\ current_time' = [current_time EXCEPT ![w] = 0]
    /\ \E db_ok \in StoreOutcomes :
         LET positions == IF db_ok THEN get_all_open_positions ELSE <<>>
             coin == CHOOSE c \in COINS : TRUE
             funding_rate == calculate_funding_rate(coin, positions)
             st == ApplyFunding(positions, coin, funding_rate,
                       [balance |-> user_balance,
                        funding |-> contract_funding,
                        raised |-> FALSE])
         IN /\ StoreCall(db_ok)
            /\ IF funding_rate.num = 0
               THEN /\ UNCHANGED <<user_balance, contract_funding>>
                    /\ wpc' = [wpc EXCEPT ![w] = "event"]
               ELSE /\ user_balance' = st.balance
                    /\ contract_funding' = st.funding
                    /\ wpc' = [wpc EXCEPT ![w] =
                                  IF st.raised THEN "except" ELSE "event"]
    /\ UNCHANGED <<snapshot_vars,
                   market_update_running, market_update_lock, all_positions,
                   order_users, remaining_orders,
                   market_vars, spot_vars, user_contracts, contract_positions,
                   contract_history, contract_liquidations, next_position_id,
                   now, last_event_time, group_last_activity, event_threads,
                   last>>

(***************************************************************************)
(* Random events                                                           *)
(***************************************************************************)
\* _has_active_groups: some whitelisted group spoke within the threshold
\* (a group never heard of counts as last active at time 0)
has_active_groups ==
    \E g \in WHITELIST_SESSIONS :
        now - group_last_activity[g] < INACTIVITY_THRESHOLD

\* try_trigger_random_event; the draw of random.random() is `hit`.
WorkerEvent(w) ==
    /\ wpc[w] = "event"
    /\ \E hit \in BOOLEAN :
         IF \/ now - last_event_time < EVENT_COOLDOWN
            \/ ~has_active_groups
            \/ ~hit
         THEN UNCHANGED <<last_event_time, event_threads>>
         ELSE /\ last_event_time' = now
              /\ event_threads' = [event_threads EXCEPT !.started = @ + 1]
    /\ wpc' = [wpc EXCEPT ![w] = "loop"]
    /\ UNCHANGED <<snapshot_vars,
                   market_update_running, market_update_lock, local_vars,
                   market_vars, user_balance, spot_vars, user_contracts,
                   store_vars, next_position_id, now, last_funding_rate_time,
                   group_last_activity, last>>

\* try_trigger_random_event up to the draw: the clock is read, the cooldown
\* and the groups' activity are tested, the probability is drawn; the
\* function returns unless all three let the event happen.
WorkerEventTest(w) ==
    /\ wpc[w] = "event"
    /\ \E hit \in BOOLEAN :
         IF \/ now - last_event_time < EVENT_COOLDOWN
            \/ ~has_active_groups
            \/ ~hit
         THEN /\ wpc' = [wpc EXCEPT ![w] = "loop"]
              /\ UNCHANGED current_time
         ELSE /\ wpc' = [wpc EXCEPT ![w] = "event_start"]
              /\ current_time' = [current_time EXCEPT ![w] = now]
    /\ UNCHANGED <<snapshot_vars,
                   market_update_running, market_update_lock, all_positions,
                   order_users, remaining_orders, market_vars, user_balance,
                   spot_vars, user_contracts, store_vars, next_position_id,
                   time_vars, last>>

\* try_trigger_random_event after the draw: last_event_time = current_time
\* and the event thread is started.
WorkerEventStart(w) ==
    /\ wpc[w] = "event_start"
    /\ last_event_time' = current_time[w]
    /\ event_threads' = [event_threads EXCEPT !.started = @ + 1]
    /\ current_time' = [current_time EXCEPT ![w] = 0]
    /\ wpc' = [wpc EXCEPT ![w] = "loop"]
    /\ UNCHANGED <<snapshot_vars,
                   market_update_running, market_update_lock, all_positions,
                   order_users, remaining_orders, market_vars, user_balance,
                   spot_vars, user_contracts, store_vars, next_position_id,
                   now, last_funding_rate_time, group_last_activity, last>>

\* _apply_price_change, called once by an event thread, under the lock
apply_price_change(coin, change_percent) ==
    [market_prices EXCEPT ![coin] =
        Max(PRICE_FLOOR, (@ * (1000 + change_percent)) \div 1000)]

\* _generate_and_apply_event: the thread picks a coin and a signed change and
\* applies it.
EventApply ==
    /\ event_threads.started > 0
    /\ market_update_lock = NoThread
    /\ \E coin \in COINS, change_percent \in EventChanges :
          /\ apply_price_change(coin, change_percent)[coin] \in PriceLevels
          /\ market_prices' = apply_price_change(coin, change_percent)
          /\ dynamic_means' = shifted_means(coin, change_percent)
    /\ event_threads' = [event_threads EXCEPT !.started = @ - 1]
    /\ UNCHANGED <<snapshot_vars, sched_vars, local_vars, liquidity_pressure,
                   current_volatility, user_balance,
                   spot_vars, user_contracts, store_vars, next_position_id,
                   now, last_funding_rate_time, last_event_time,
                   group_last_activity, last>>

\* _apply_price_change entered without `with market_update_lock`.
EventEnter_without_lock ==
    /\ event_threads.started > 0
    /\ market_update_lock' = EventThread
    /\ event_threads' = [event_threads EXCEPT !.started = @ - 1,
                                               !.inside = @ + 1]
    /\ UNCHANGED <<snapshot_vars, market_update_running, wpc, local_vars,
                   market_vars, user_balance,
                   spot_vars, user_contracts, store_vars, next_position_id,
                   now, last_funding_rate_time, last_event_time,
                   group_last_activity, last>>

\* _apply_price_change: an event thread has picked its coin and its change
\* and enters `with market_update_lock`.
EventEnter ==
    /\ event_threads.started > 0
    /\ market_update_lock = NoThread
    /\ market_update_lock' = EventThread
    /\ event_threads' = [event_threads EXCEPT !.started = @ - 1,
                                               !.inside = @ + 1]
    /\ UNCHANGED <<snapshot_vars, market_update_running, wpc, local_vars,
                   market_vars, user_balance,
                   spot_vars, user_contracts, store_vars, next_position_id,
                   now, last_funding_rate_time, last_event_time,
                   group_last_activity, last>>

\* _apply_price_change: the body of the `with` block (the price and the
\* dynamic mean change by change_percent) and its end, which releases the
\* lock.
EventShock ==
    /\ event_threads.inside > 0
    /\ \E coin \in COINS, change_percent \in EventChanges :
          /\ apply_price_change(coin, change_percent)[coin] \in PriceLevels
          /\ market_prices' = apply_price_change(coin, change_percent)
          /\ dynamic_means' = shifted_means(coin, change_percent)
    /\ market_update_lock' = NoThread
    /\ event_threads' = [event_threads EXCEPT !.inside = @ - 1]
    /\ UNCHANGED <<snapshot_vars, market_update_running, wpc, local_vars,
                   liquidity_pressure,
                   current_volatility, user_balance,
                   spot_vars, user_contracts, store_vars, next_position_id,
                   now, last_funding_rate_time, last_event_time,
                   group_last_activity, last>>

\* A text generation whose exception ends the thread's work on the event.
after_text_generation_giving_up(outcome) ==
    IF outcome = "exception" THEN "sending" ELSE "calling"

\* _generate_event_with_llm: where the thread is once the text generation is
\* over.  Every outcome leads to one call of _apply_price_change: through
\* _apply_event_fallback without a context (line 878), with an empty text
\* (line 918) and from the except clause (line 922), directly with a text
\* (line 910).
after_text_generation(outcome) ==
    CASE outcome = "no_context" -> "calling"
      [] outcome = "text" -> "calling"
      [] outcome = "empty" -> "calling"
      [] outcome = "exception" -> "calling"

\* _generate_and_apply_event up to the call of _apply_price_change: the
\* thread makes its event loop, picks the coin and the change and waits for
\* the text.
generate_event_with_llm ==
    /\ event_threads.started > 0
    /\ \E outcome \in {"no_context", "text", "empty", "exception"} :
          event_threads' =
              [event_threads EXCEPT
                  !.started = @ - 1,
                  ![after_text_generation(outcome)] = @ + 1]
    /\ UNCHANGED <<snapshot_vars, sched_vars, local_vars,
                   market_vars, user_balance,
                   spot_vars, user_contracts, store_vars, next_position_id,
                   now, last_funding_rate_time, last_event_time,
                   group_last_activity, last>>

\* _apply_price_change: the thread enters `with market_update_lock`.
EventLock ==
    /\ event_threads.calling > 0
    /\ market_update_lock = NoThread
    /\ market_update_lock' = EventThread
    /\ event_threads' = [event_threads EXCEPT !.calling = @ - 1,
                                               !.inside = @ + 1]
    /\ UNCHANGED <<snapshot_vars, market_update_running, wpc, local_vars,
                   market_vars, user_balance,
                   spot_vars, user_contracts, store_vars, next_position_id,
                   now, last_funding_rate_time, last_event_time,
                   group_last_activity, last>>

\* _apply_price_change: the body of the `with` block and its end; the
\* thread then has its message and is about to broadcast it.
EventChange ==
    /\ event_threads.inside > 0
    /\ \E coin \in COINS, change_percent \in EventChanges :
          /\ apply_price_change(coin, change_percent)[coin] \in PriceLevels
          /\ market_prices' = apply_price_change(coin, change_percent)
          /\ dynamic_means' = shifted_means(coin, change_percent)
    /\ market_update_lock' = NoThread
    /\ event_threads' = [event_threads EXCEPT !.inside = @ - 1,
                                               !.sending = @ + 1]
    /\ UNCHANGED <<snapshot_vars, market_update_running, wpc, local_vars,
                   liquidity_pressure,
                   current_volatility, user_balance,
                   spot_vars, user_contracts, store_vars, next_position_id,
                   now, last_funding_rate_time, last_event_time,
                   group_last_activity, last>>

\* _send_event_to_groups and the end of the thread: every failure is logged.
send_event_to_groups ==
    /\ event_threads.sending > 0
    /\ \E outcome \in {"skipped", "sent", "send_failed", "failed"} :
          event_threads' = [event_threads EXCEPT !.sending = @ - 1]
    /\ UNCHANGED <<snapshot_vars, sched_vars, local_vars,
                   market_vars, user_balance,
                   spot_vars, user_contracts, store_vars, next_position_id,
                   now, last_funding_rate_time, last_event_time,
                   group_last_activity, last>>

\* update_group_activity
update_group_activity(g) ==
    /\ group_last_activity' = [group_last_activity EXCEPT ![g] = now]
    /\ UNCHANGED <<snapshot_vars,
                   sched_vars, local_vars, market_vars, user_balance,
                   spot_vars, user_contracts, store_vars, next_position_id,
                   now, last_funding_rate_time, last_event_time,
                   event_threads, last>>

\* The clock advances.
TimePasses ==
    /\ \E d \in {1800} : /\ now + d <= MaxTime
                           /\ now' = now + d
    /\ UNCHANGED <<snapshot_vars,
                   sched_vars, local_vars, market_vars, user_balance,
                   spot_vars, user_contracts, store_vars, next_position_id,
                   last_funding_rate_time, last_event_time,
                   group_last_activity, event_threads, last>>

(***************************************************************************)
(* Spot command handlers                                                   *)
(***************************************************************************)
\* The pressure after a trade, not kept within any range.
apply_liquidity_impact_without_range(coin, amount, is_buy) ==
    LET trade_value == amount * market_prices[coin]
        impact == Min(trade_value \div LIQUIDITY_IMPACT_FACTOR,
                      LIQUIDITY_MAX_IMPACT)
    IN [liquidity_pressure EXCEPT ![coin] =
           IF is_buy THEN @ + impact ELSE @ - impact]

\* apply_liquidity_impact: the pressure after a trade of amount at the
\* current price
apply_liquidity_impact(coin, amount, is_buy) ==
    LET trade_value == amount * market_prices[coin]
        impact == Min(trade_value \div LIQUIDITY_IMPACT_FACTOR,
                      LIQUIDITY_MAX_IMPACT)
        pressure_change == IF is_buy THEN impact ELSE 0 - impact
    IN [liquidity_pressure EXCEPT ![coin] =
           Max(0 - LIQUIDITY_MAX_PRESSURE,
               Min(LIQUIDITY_MAX_PRESSURE, @ + pressure_change))]

\* The buy test with > for >=: a limit equal to the price passes.
buy_limit_refused_above(price, current_price) == price > current_price

\* bi_buy: a limit price the handler refuses
buy_limit_refused(price, current_price) == price >= current_price

\* bi_sell: a limit price the handler refuses
sell_limit_refused(price, current_price) == price <= current_price

NewOrder(type, coin, amount, price) ==
    [order_id |-> next_order_id, type |-> type, coin |-> coin,
     amount |-> amount, price |-> price, created_at |-> now,
     expires_at |-> now + ORDER_EXPIRY]

\* bi_buy.  price = 0: bought now at the current price; otherwise a pending
\* order.
bi_buy(user_id, coin, amount, price) ==
    init_user(user_id) /\
    LET current_price == get_coin_price(coin) IN
    IF coin \notin COINS THEN Rejected("buy", "UnknownAsset")
    ELSE IF price = 0
    THEN IF user_balance[user_id] < buy_total_with_fee(amount, current_price)
         THEN Rejected("buy", "InsufficientBalance")
         ELSE /\ spot_trades < MaxSpotTrades
              /\ spot_trades' = spot_trades + 1
              /\ user_balance' = [user_balance EXCEPT ![user_id] =
                     @ - buy_total_with_fee(amount, current_price)]
              /\ user_assets' = [user_assets EXCEPT ![user_id][coin] =
                     holding_after_buy(@, amount, current_price)]
              /\ liquidity_pressure' = apply_liquidity_impact(coin, amount, TRUE)
              /\ last' = Answer("buy", "ok", "none")
              /\ UNCHANGED <<sched_vars, local_vars, market_prices,
                             current_volatility, dynamic_means,
                             pending_orders, next_order_id, user_contracts,
                             store_vars, next_position_id, time_vars>>
    ELSE IF buy_limit_refused(price, current_price)
    THEN Rejected("buy", "InvalidLimitPrice")
    ELSE /\ next_order_id <= MaxOrders
         /\ next_order_id' = next_order_id + 1
         /\ pending_orders' = [pending_orders EXCEPT ![user_id] =
                Append(@, NewOrder("buy", coin, amount, price))]
         /\ last' = Answer("buy", "order", "none")
         /\ UNCHANGED <<sched_vars, local_vars, market_vars, user_balance,
                        user_assets, spot_trades, user_contracts, store_vars,
                        next_position_id, time_vars>>

\* bi_sell.  price = 0: sold now at the current price; otherwise a pending
\* order.
bi_sell(user_id, coin, amount, price) ==
    init_user(user_id) /\
    LET current_price == get_coin_price(coin) IN
    IF coin \notin COINS THEN Rejected("sell", "UnknownAsset")
    ELSE IF price = 0
    THEN IF user_assets[user_id][coin].amount < amount
         THEN Rejected("sell", "InsufficientHolding")
         ELSE /\ spot_trades < MaxSpotTrades
              /\ spot_trades' = spot_trades + 1
              /\ user_assets' = [user_assets EXCEPT ![user_id][coin] =
                     holding_after_sell(@, amount)]
              /\ user_balance' = [user_balance EXCEPT ![user_id] =
                     @ + sell_net_income(amount, current_price)]
              /\ liquidity_pressure' = apply_liquidity_impact(coin, amount, FALSE)
              /\ last' = Answer("sell", "ok", "none")
              /\ UNCHANGED <<sched_vars, local_vars, market_prices,
                             current_volatility, dynamic_means,
                             pending_orders, next_order_id, user_contracts,
                             store_vars, next_position_id, time_vars>>
    ELSE IF sell_limit_refused(price, current_price)
    THEN Rejected("sell", "InvalidLimitPrice")
    ELSE /\ next_order_id <= MaxOrders
         /\ next_order_id' = next_order_id + 1
         /\ pending_orders' = [pending_orders EXCEPT ![user_id] =
                Append(@, NewOrder("sell", coin, amount, price))]
         /\ last' = Answer("sell", "order", "none")
         /\ UNCHANGED <<sched_vars, local_vars, market_vars, user_balance,
                        user_assets, spot_trades, user_contracts, store_vars,
                        next_position_id, time_vars>>

(***************************************************************************)
(* The snapshot file and the start of a process                            *)
(***************************************************************************)
\* datetime.isoformat() cut to the date.
isoformat_date_only(t) == [date |-> t \div 86400, time |-> 0]

\* datetime.isoformat(): the text names the day and the time of day (the
\* clock of the model has whole seconds, so no fraction is written).
isoformat(t) == [date |-> t \div 86400, time |-> t % 86400]

\* datetime.fromisoformat()
fromisoformat(text) == text.date * 86400 + text.time

\* json.dump of a number: its sign and its decimal digits before and after
\* the point.
dump_number(x) ==
    [negative |-> x < 0, whole |-> Abs(x) \div 1000, fraction |-> Abs(x) % 1000]

\* json.load of a number
load_number(text) ==
    IF text.negative THEN 0 - (text.whole * 1000 + text.fraction)
    ELSE text.whole * 1000 + text.fraction

dump_holding(holding) ==
    [amount |-> dump_number(holding.amount),
     total_cost |-> dump_number(holding.total_cost)]

load_holding(text) ==
    [amount |-> load_number(text.amount),
     total_cost |-> load_number(text.total_cost)]

\* save_bi_data: order_copy with created_at and expires_at as text, as
\* json.dump writes it
dump_order(order) ==
    [order_id |-> order.order_id, type |-> order.type, coin |-> order.coin,
     amount |-> dump_number(order.amount), price |-> dump_number(order.price),
     created_at |-> isoformat(order.created_at),
     expires_at |-> isoformat(order.expires_at)]

\* load_bi_data: the order json.load returns, its two times converted back
load_order(text) ==
    [order_id |-> text.order_id, type |-> text.type, coin |-> text.coin,
     amount |-> load_number(text.amount), price |-> load_number(text.price),
     created_at |-> fromisoformat(text.created_at),
     expires_at |-> fromisoformat(text.expires_at)]

\* save_bi_data: DATA_FILE holds the prices, the entries of every user who
\* has one, the volatility, the pressure and the time of the save.
save_bi_data ==
    /\ data_file' =
          [exists |-> TRUE,
           market_prices |-> [c \in COINS |-> dump_number(market_prices[c])],
           user_assets |->
               [u \in resident |->
                   [c \in COINS |-> dump_holding(user_assets[u][c])]],
           user_balance |-> [u \in resident |-> dump_number(user_balance[u])],
           pending_orders |->
               [u \in resident |->
                   [i \in 1..Len(pending_orders[u]) |->
                       dump_order(pending_orders[u][i])]],
           current_volatility |->
               [c \in COINS |-> dump_number(current_volatility[c])],
           liquidity_pressure |->
               [c \in COINS |-> dump_number(liquidity_pressure[c])],
           saved_at |-> isoformat(now)]
    /\ saved' = [exists |-> TRUE,
                 user_assets |-> [u \in resident |-> user_assets[u]],
                 user_balance |-> [u \in resident |-> user_balance[u]],
                 pending_orders |-> [u \in resident |-> pending_orders[u]]]
    /\ UNCHANGED <<sched_vars, local_vars, market_vars, user_balance,
                   spot_vars, user_contracts, store_vars, next_position_id,
                   time_vars, last, resident>>

\* load_bi_data with DATA_FILE present: the prices, the volatility and the
\* pressure are the file's; a user of the file gets the file's entries
\* unless the user has entries already.
load_bi_data ==
    /\ data_file.exists
    /\ LET users == DOMAIN data_file.user_balance
           loaded == users \ resident
       IN /\ market_prices' =
                [c \in COINS |-> load_number(data_file.market_prices[c])]
          /\ user_assets' =
                [u \in Users |->
                    IF u \in loaded
                    THEN [c \in COINS |->
                            load_holding(data_file.user_assets[u][c])]
                    ELSE user_assets[u]]
          /\ user_balance' =
                [u \in Users |->
                    IF u \in loaded
                    THEN load_number(data_file.user_balance[u])
                    ELSE user_balance[u]]
          /\ pending_orders' =
                [u \in Users |->
                    IF u \in loaded
                    THEN [i \in 1..Len(data_file.pending_orders[u]) |->
                            load_order(data_file.pending_orders[u][i])]
                    ELSE pending_orders[u]]
          /\ current_volatility' =
                [c \in COINS |-> load_number(data_file.current_volatility[c])]
          /\ liquidity_pressure' =
                [c \in COINS |-> load_number(data_file.liquidity_pressure[c])]
          /\ resident' = resident \cup users
    /\ UNCHANGED <<sched_vars, local_vars, next_order_id, spot_trades,
                   user_contracts, store_vars, next_position_id, time_vars,
                   last, data_file, saved, dynamic_means>>

\* The process ends and a new one imports the module: the memory is the
\* module's initial one, nobody has an entry, the one worker of the import
\* is about to test the flag; the store, DATA_FILE and the clock go on.
ProcessRestart ==
    /\ market_update_running' = TRUE
    /\ market_update_lock' = NoThread
    /\ wpc' = [w \in Workers |-> IF w = 1 THEN "loop" ELSE "idle"]
    /\ all_positions' = [w \in Workers |-> <<>>]
    /\ order_users' = [w \in Workers |-> <<>>]
    /\ current_time' = [w \in Workers |-> 0]
    /\ remaining_orders' = [w \in Workers |-> <<>>]
    /\ market_prices' = INITIAL_PRICES
    /\ liquidity_pressure' = [c \in COINS |-> 0]
    /\ current_volatility' = VOLATILITY_BASE
    /\ dynamic_means' = INITIAL_PRICES
    /\ user_balance' = [u \in Users |-> INITIAL_BALANCE]
    /\ user_assets' = [u \in Users |->
                          [c \in COINS |-> [amount |-> 0, total_cost |-> 0]]]
    /\ pending_orders' = [u \in Users |-> <<>>]
    /\ user_contracts' = [u \in Users |-> <<>>]
    /\ last_funding_rate_time' = now
    /\ last_event_time' = 0
    /\ group_last_activity' = [g \in WHITELIST_SESSIONS |-> 0]
    /\ event_threads' = NoEventThreads
    /\ last' = [op |-> "none", result |-> "none", store |-> "none"]
    /\ resident' = {}
    /\ UNCHANGED <<next_order_id, spot_trades, store_vars, next_position_id,
                   now, data_file, saved>>

(***************************************************************************)
(* Specifications                                                          *)
(***************************************************************************)
\* The module as loaded: the last statement of bi.py has started the first
\* worker, nobody has traded, and the clock is far from time 0.
Init ==
    /\ market_update_running = TRUE
    /\ market_update_lock = NoThread
    /\ wpc = [w \in Workers |-> IF w = 1 THEN "loop" ELSE "idle"]
    /\ all_positions = [w \in Workers |-> <<>>]
    /\ order_users = [w \in Workers |-> <<>>]
    /\ current_time = [w \in Workers |-> 0]
    /\ remaining_orders = [w \in Workers |-> <<>>]
    /\ market_prices = INITIAL_PRICES
    /\ liquidity_pressure = [c \in COINS |-> 0]
    /\ current_volatility = VOLATILITY_BASE
    /\ dynamic_means = INITIAL_PRICES
    /\ user_balance = [u \in Users |-> INITIAL_BALANCE]
    /\ user_assets = [u \in Users |->
                         [c \in COINS |-> [amount |-> 0, total_cost |-> 0]]]
    /\ pending_orders = [u \in Users |-> <<>>]
    /\ next_order_id = 1
    /\ spot_trades = 0
    /\ user_contracts = [u \in Users |-> <<>>]
    /\ contract_positions = <<>>
    /\ contract_history = <<>>
    /\ contract_liquidations = <<>>
    /\ contract_funding = <<>>
    /\ store_failures = 0
    /\ next_position_id = 1
    /\ now = INACTIVITY_THRESHOLD
    /\ last_funding_rate_time = INACTIVITY_THRESHOLD
    /\ last_event_time = 0
    /\ group_last_activity = [g \in WHITELIST_SESSIONS |-> 0]
    /\ event_threads = NoEventThreads
    /\ last = [op |-> "none", result |-> "none", store |-> "none"]
    /\ resident = Users
    /\ data_file = NoFile
    /\ saved = NoFile

\* The steps of a worker every tick takes.
WorkerTick(w) ==
    \/ WorkerLoop(w)
    \/ WorkerSleep(w)
    \/ WorkerUpdate(w)
    \/ WorkerOrdersMatch(w)
    \/ WorkerLiqRead(w)
    \/ WorkerFunding(w)
    \/ WorkerEvent(w)

ContractCommand ==
    \E user_id \in Users :
        \/ \E r \in OpenArgs :
              bi_contract_open(user_id, r[1], r[2], r[3], r[4])
        \/ \E position_id \in PositionIds :
              bi_contract_close(user_id, position_id)
        \/ bi_contract_positions(user_id)

\* The scheduler: start, stop and the workers they create, sweeping the
\* positions users open at the default leverage while the store works.
\* Nobody places an order here, so no worker reaches the assignment that
\* ends a user's order pass.
NextSched ==
    \/ bi_start_market_updates
    \/ bi_stop_market_updates
    \/ \E w \in Workers : WorkerTick(w) \/ WorkerLiqStep(w)
    \/ \E user_id \in Users, direction \in {"long", "short"} :
          bi_contract_open(user_id, "PIG", direction, 1, 0)

SpecSched == Init /\ [][NextSched]_vars

\* The contract engine under the worker the module load started.
NextContract ==
    \/ \E w \in Workers : WorkerTick(w) \/ WorkerLiqStep(w)
    \/ ContractCommand

SpecContract == Init /\ [][NextContract]_vars

\* The limit-order book under the worker the module load started, with the
\* clock: every buy and sell command names a limit price.
NextOrders ==
    \/ \E w \in Workers : WorkerTick(w) \/ WorkerOrdersAssign(w)
    \/ \E user_id \in Users, coin \in CoinArgs, amount \in {1, 200},
          price \in LimitArgs \ {0} :
            \/ bi_buy(user_id, coin, amount, price)
            \/ bi_sell(user_id, coin, amount, price)
    \/ TimePasses

SpecOrders == Init /\ [][NextOrders]_vars

\* A row of the position table at the start: open, of the one asset, entered
\* at the initial price with the default leverage, the i-th row with id i
\* and owned by the i-th user.  The tables hold at most two rows.
StoredRow(i, r) ==
    LET coin == CHOOSE c \in COINS : TRUE
        entry_price == INITIAL_PRICES[coin]
    IN [position_id |-> i, user_id |-> UserOrder[i], coin |-> coin,
        direction |-> r[1], amount |-> r[2], entry_price |-> entry_price,
        leverage |-> CONTRACT_LEVERAGE,
        margin |-> (r[2] * entry_price) \div CONTRACT_LEVERAGE,
        liquidation_price |->
            calculate_liquidation_price(entry_price, CONTRACT_LEVERAGE, r[1]),
        status |-> "open"]
StoredTables ==
    {<<>>} \cup {<<StoredRow(1, r)>> : r \in StoredRowArgs}
           \cup {<<StoredRow(1, r[1]), StoredRow(2, r[2])>> :
                     r \in StoredRowArgs \X StoredRowArgs}

\* The module as loaded when load_bi_data has restored a snapshot and the
\* store is an earlier run's: prices, pressure, volatility and holdings are
\* the snapshot's, the position table is the store's, nobody has an order,
\* no position is cached.
InitFrom(prices, pressures, volatilities, tables) ==
    /\ market_update_running = TRUE
    /\ market_update_lock = NoThread
    /\ wpc = [w \in Workers |-> IF w = 1 THEN "loop" ELSE "idle"]
    /\ all_positions = [w \in Workers |-> <<>>]
    /\ order_users = [w \in Workers |-> <<>>]
    /\ current_time = [w \in Workers |-> 0]
    /\ remaining_orders = [w \in Workers |-> <<>>]
    /\ market_prices \in [COINS -> prices]
    /\ liquidity_pressure \in [COINS -> pressures]
    /\ current_volatility \in [COINS -> volatilities]
    /\ dynamic_means = INITIAL_PRICES
    /\ user_balance = [u \in Users |-> INITIAL_BALANCE]
    /\ user_assets = [u \in Users |-> [c \in COINS |->
                         [amount |-> 5, total_cost |-> 500000]]]
    /\ pending_orders = [u \in Users |-> <<>>]
    /\ next_order_id = 1
    /\ spot_trades = 0
    /\ user_contracts = [u \in Users |-> <<>>]
    /\ contract_positions \in tables
    /\ contract_history = <<>>
    /\ contract_liquidations = <<>>
    /\ contract_funding = <<>>
    /\ store_failures = 0
    /\ next_position_id = Len(contract_positions) + 1
    /\ now = INACTIVITY_THRESHOLD
    /\ last_funding_rate_time = INACTIVITY_THRESHOLD
    /\ last_event_time = 0
    /\ group_last_activity = [g \in WHITELIST_SESSIONS |-> 0]
    /\ event_threads = NoEventThreads
    /\ last = [op |-> "none", result |-> "none", store |-> "none"]
    /\ resident = Users
    /\ data_file = NoFile
    /\ saved = NoFile

\* The market a snapshot may restore: a price one step above the floor or
\* the initial one; a volatility one step inside either end of its range or
\* the base; a pressure at either end of its range, one trade inside it, or 0.
InitMarket == InitFrom({12, 100000}, PressureStarts, {20, 30, 40}, {<<>>})

\* The module as loaded over a store that holds open positions.
InitFunding ==
    InitFrom({INITIAL_PRICES[c] : c \in COINS}, {0},
             {VOLATILITY_BASE[c] : c \in COINS}, StoredTables)

\* The market: the worker's ticks and the event shocks a tick starts once a
\* whitelisted group has spoken.
NextMarket ==
    \/ \E w \in Workers : WorkerTick(w)
    \/ \E g \in WHITELIST_SESSIONS : update_group_activity(g)
    \/ EventApply

SpecMarket == InitMarket /\ [][NextMarket]_vars

\* The worker's ticks and buys and sells at the current price.
NextPressure ==
    \/ \E w \in Workers : WorkerTick(w)
    \/ \E user_id \in Users, coin \in CoinArgs, amount \in SpotAmountArgs :
          \/ bi_buy(user_id, coin, amount, 0)
          \/ bi_sell(user_id, coin, amount, 0)

SpecPressure ==
    /\ InitFrom({INITIAL_PRICES[c] : c \in COINS},
                PressureStarts \ {0 - LIQUIDITY_MAX_PRESSURE, LIQUIDITY_MAX_PRESSURE},
                {VOLATILITY_BASE[c] : c \in COINS}, {<<>>})
    /\ [][NextPressure]_vars

\* Ticks only, nobody trades; the worker thread is scheduled again and again.
SpecDecay ==
    /\ InitMarket
    /\ [][\E w \in Workers : WorkerTick(w)]_vars
    /\ WF_vars(\E w \in Workers : WorkerTick(w))

\* The worker over the stored positions, with the clock: sweeps and funding
\* settlements.
NextFunding ==
    \/ \E w \in Workers : WorkerTick(w) \/ WorkerLiqStep(w)
    \/ TimePasses

SpecFunding == InitFunding /\ [][NextFunding]_vars

\* Opens of either direction at every leverage the handler accepts.
NextOpen ==
    \E user_id \in Users, coin \in COINS, direction \in {"long", "short"},
       amount \in {10}, leverage \in 1..MAX_LEVERAGE :
        bi_contract_open(user_id, coin, direction, amount, leverage)

SpecOpen ==
    /\ InitFrom({80000, 100000, 125000}, {0},
                {VOLATILITY_BASE[c] : c \in COINS}, {<<>>})
    /\ [][NextOpen]_vars

\* Opens at several leverages, closes, and the worker, whose ticks move the
\* price and sweep.
NextLeverage ==
    \/ \E user_id \in Users, coin \in COINS, direction \in {"long", "short"},
          amount \in {10}, leverage \in {1, 3, 7, 10, 100} :
            bi_contract_open(user_id, coin, direction, amount, leverage)
    \/ \E user_id \in Users, position_id \in PositionIds :
          bi_contract_close(user_id, position_id)
    \/ \E w \in Workers : WorkerTick(w) \/ WorkerLiqStep(w)

SpecLeverage ==
    /\ InitFrom({80000, 100000, 125000}, {0},
                {VOLATILITY_BASE[c] : c \in COINS}, {<<>>})
    /\ [][NextLeverage]_vars

\* The snapshot: users buy at the price and place buy orders, the clock
\* advances, the file is written, the process ends and starts again, the
\* file is read.
NextSnapshot ==
    \/ \E user_id \in Users, coin \in COINS, amount \in SpotAmountArgs,
          price \in {0, 90000} :
            bi_buy(user_id, coin, amount, price)
    \/ TimePasses
    \/ save_bi_data
    \/ load_bi_data
    \/ ProcessRestart

SpecSnapshot == Init /\ [][NextSnapshot]_vars

\* The store of an earlier run with one open position.
OneRowTables == {table \in StoredTables : Len(table) = 1}

\* The module as loaded over the store of an earlier run, before any
\* command: the position table is the store's and nobody has an entry in
\* the tables of the memory.
InitStarted ==
    /\ market_update_running = TRUE
    /\ market_update_lock = NoThread
    /\ wpc = [w \in Workers |-> IF w = 1 THEN "loop" ELSE "idle"]
    /\ all_positions = [w \in Workers |-> <<>>]
    /\ order_users = [w \in Workers |-> <<>>]
    /\ current_time = [w \in Workers |-> 0]
    /\ remaining_orders = [w \in Workers |-> <<>>]
    /\ market_prices = INITIAL_PRICES
    /\ liquidity_pressure = [c \in COINS |-> 0]
    /\ current_volatility = VOLATILITY_BASE
    /\ dynamic_means = INITIAL_PRICES
    /\ user_balance = [u \in Users |-> INITIAL_BALANCE]
    /\ user_assets = [u \in Users |->
                         [c \in COINS |-> [amount |-> 0, total_cost |-> 0]]]
    /\ pending_orders = [u \in Users |-> <<>>]
    /\ next_order_id = 1
    /\ spot_trades = 0
    /\ user_contracts = [u \in Users |-> <<>>]
    /\ contract_positions \in OneRowTables
    /\ contract_history = <<>>
    /\ contract_liquidations = <<>>
    /\ contract_funding = <<>>
    /\ store_failures = 0
    /\ next_position_id = Len(contract_positions) + 1
    /\ now = INACTIVITY_THRESHOLD
    /\ last_funding_rate_time = INACTIVITY_THRESHOLD
    /\ last_event_time = 0
    /\ group_last_activity = [g \in WHITELIST_SESSIONS |-> 0]
    /\ event_threads = NoEventThreads
    /\ last = [op |-> "none", result |-> "none", store |-> "none"]
    /\ resident = {}
    /\ data_file = NoFile
    /\ saved = NoFile

\* A step of the worker thread w (nobody has an order here, so the order
\* pass of a user never reaches its assignment).
WorkerStep(w) ==
    \/ WorkerTick(w)
    \/ WorkerLiqStep(w)
    \/ WorkerExcept(w)

\* The worker of the module load over stored positions whose users may have
\* no balance entry yet: its ticks, the exceptions a tick raises, the clock,
\* users listing their positions (which gives them their entries) and the
\* stop command.  No second worker is started.
NextFaults ==
    \/ \E w \in Workers : WorkerStep(w)
    \/ \E w \in Workers : WorkerRaise(w)
    \/ TimePasses
    \/ \E user_id \in Users : bi_contract_positions(user_id)
    \/ bi_stop_market_updates

\* A thread that can take a step is scheduled.
SpecFaults ==
    /\ InitStarted
    /\ [][NextFaults]_vars
    /\ \A w \in Workers : WF_vars(WorkerStep(w))

\* The order of a snapshot: the first user's, to buy one unit below the
\* initial price, created at the start of the clock.
StoredOrder ==
    [order_id |-> 0, type |-> "buy", coin |-> CHOOSE c \in COINS : TRUE,
     amount |-> 1, price |-> 96000, created_at |-> INACTIVITY_THRESHOLD,
     expires_at |-> INACTIVITY_THRESHOLD + ORDER_EXPIRY]

\* The module as loaded when load_bi_data has restored the first user's
\* order and the volatility, and the store holds one of `tables`.
InitStored(tables, volatilities) ==
    /\ market_update_running = TRUE
    /\ market_update_lock = NoThread
    /\ wpc = [w \in Workers |-> IF w = 1 THEN "loop" ELSE "idle"]
    /\ all_positions = [w \in Workers |-> <<>>]
    /\ order_users = [w \in Workers |-> <<>>]
    /\ current_time = [w \in Workers |-> 0]
    /\ remaining_orders = [w \in Workers |-> <<>>]
    /\ market_prices = INITIAL_PRICES
    /\ liquidity_pressure = [c \in COINS |-> 0]
    /\ current_volatility \in [COINS -> volatilities]
    /\ dynamic_means = INITIAL_PRICES
    /\ user_balance = [u \in Users |-> INITIAL_BALANCE]
    /\ user_assets = [u \in Users |->
                         [c \in COINS |-> [amount |-> 0, total_cost |-> 0]]]
    /\ pending_orders =
          [u \in Users |-> IF u = UserOrder[1] THEN <<StoredOrder>> ELSE <<>>]
    /\ next_order_id = 1
    /\ spot_trades = 0
    /\ user_contracts = [u \in Users |-> <<>>]
    /\ contract_positions \in tables
    /\ contract_history = <<>>
    /\ contract_liquidations = <<>>
    /\ contract_funding = <<>>
    /\ store_failures = 0
    /\ next_position_id = Len(contract_positions) + 1
    /\ now = INACTIVITY_THRESHOLD
    /\ last_funding_rate_time = INACTIVITY_THRESHOLD
    /\ last_event_time = 0
    /\ group_last_activity = [g \in WHITELIST_SESSIONS |-> 0]
    /\ event_threads = NoEventThreads
    /\ last = [op |-> "none", result |-> "none", store |-> "none"]
    /\ resident = Users
    /\ data_file = NoFile
    /\ saved = NoFile

\* The order pass and the users: the worker's ticks, limit orders of the
\* two users and the clock, from a state in which the first user has an
\* order already.
NextRace ==
    \/ \E w \in Workers : WorkerTick(w) \/ WorkerOrdersAssign(w)
    \/ \E user_id \in Users, price \in {90000, 110000} :
          \/ bi_buy(user_id, "PIG", 1, price)
          \/ bi_sell(user_id, "PIG", 1, price)
    \/ TimePasses

SpecRace ==
    /\ InitStored({<<>>}, {VOLATILITY_BASE[c] : c \in COINS})
    /\ [][NextRace]_vars

\* The lock: the worker's ticks step by step, the two calls under the lock
\* apart, over the order and the
\* position a user has placed, the groups' messages, the clock and the event
\* threads the ticks start, each entering and leaving its locked block.
NextLock ==
    \/ \E w \in Workers :
          \/ WorkerLoop(w)
          \/ WorkerSleep(w)
          \/ WorkerVolatility(w)
          \/ WorkerPrices(w)
          \/ WorkerOrdersMatch(w)
          \/ WorkerOrdersAssign(w)
          \/ WorkerLiqRead(w)
          \/ WorkerLiqStep(w)
          \/ WorkerFunding(w)
          \/ WorkerEvent(w)
    \/ \E g \in WHITELIST_SESSIONS : update_group_activity(g)
    \/ TimePasses
    \/ EventEnter
    \/ EventShock

SpecLock == InitStored(OneRowTables, {20}) /\ [][NextLock]_vars

\* Buys and sells of any amount, at the price or as orders, and the worker's
\* ticks that fill the orders.
NextAmounts ==
    \/ \E w \in Workers : WorkerTick(w) \/ WorkerOrdersAssign(w)
    \/ \E user_id \in Users, coin \in COINS, amount \in {-1, 0, 1} :
          \/ \E price \in {0, 90000} : bi_buy(user_id, coin, amount, price)
          \/ \E price \in {0, 110000} : bi_sell(user_id, coin, amount, price)

SpecAmounts == Init /\ [][NextAmounts]_vars

\* The worker's ticks, the groups' messages, the clock and the event
\* threads step by step through text generation, shock and broadcast.
NextEvent ==
    \/ \E w \in Workers : WorkerTick(w)
    \/ \E g \in WHITELIST_SESSIONS : update_group_activity(g)
    \/ TimePasses
    \/ generate_event_with_llm
    \/ EventLock
    \/ EventChange
    \/ send_event_to_groups

SpecEvent ==
    /\ InitFrom({INITIAL_PRICES[c] : c \in COINS}, {0},
                {VOLATILITY_BASE[c] : c \in COINS}, {<<>>})
    /\ [][NextEvent]_vars

\* Funding over time: stop and start, the workers they leave alive, their
\* ticks over the stored position (the test of apply_funding_rates and what
\* follows it apart), and the clock.
NextInterval ==
    \/ bi_start_market_updates
    \/ bi_stop_market_updates
    \/ \E w \in Workers :
          \/ WorkerLoop(w)
          \/ WorkerSleep(w)
          \/ WorkerUpdate(w)
          \/ WorkerOrdersMatch(w)
          \/ WorkerLiqRead(w)
          \/ WorkerLiqStep(w)
          \/ WorkerFundingTest(w)
          \/ WorkerFundingApply(w)
          \/ WorkerEvent(w)
    \/ TimePasses

SpecInterval ==
    /\ InitFrom({INITIAL_PRICES[c] : c \in COINS}, {0},
                {VOLATILITY_BASE[c] : c \in COINS}, OneRowTables)
    /\ [][NextInterval]_vars


\* Events over time: stop and start, the workers they leave alive, their
\* ticks (the tests of try_trigger_random_event and what follows them
\* apart), the groups' messages, the event threads and the clock.
NextCooldown ==
    \/ bi_start_market_updates
    \/ bi_stop_market_updates
    \/ \E w \in Workers :
          \/ WorkerLoop(w)
          \/ WorkerSleep(w)
          \/ WorkerUpdate(w)
          \/ WorkerOrdersMatch(w)
          \/ WorkerLiqRead(w)
          \/ WorkerFunding(w)
          \/ WorkerEventTest(w)
          \/ WorkerEventStart(w)
    \/ \E g \in WHITELIST_SESSIONS : update_group_activity(g)
    \/ EventApply
    \/ TimePasses

SpecCooldown ==
    /\ InitFrom({INITIAL_PRICES[c] : c \in COINS}, {0},
                {VOLATILITY_BASE[c] : c \in COINS}, {<<>>})
    /\ [][NextCooldown]_vars


\* After a restart over a store that holds open positions: the owners
\* close and list, the worker ticks and sweeps.
NextCache ==
    \/ \E user_id \in Users :
          \/ \E position_id \in PositionIds :
                bi_contract_close(user_id, position_id)
          \/ bi_contract_positions(user_id)
    \/ \E w \in Workers : WorkerTick(w) \/ WorkerLiqStep(w)

SpecCache == InitFunding /\ [][NextCache]_vars

(***************************************************************************)
(* market_update_lock: who takes it, who waits for it, who gives it back   *)
(***************************************************************************)
\* The lock's holder while a call of bi_start_market_updates is inside its
\* `with` block, and while a call of bi_stop_market_updates is.
StartCall == MaxWorkers + 2
StopCall == MaxWorkers + 3

\* bi_start_market_updates enters `with market_update_lock`.  The call that
\* would start a thread is made while a thread is left to start.
bi_start_market_updates_enter ==
    /\ market_update_lock = NoThread
    /\ market_update_running \/ FreeThreads # {}
    /\ market_update_lock' = StartCall
    /\ UNCHANGED <<snapshot_vars, market_update_running, wpc, local_vars,
                   market_vars, user_balance, spot_vars, user_contracts,
                   store_vars, next_position_id, time_vars, last>>

\* bi_start_market_updates inside its block: return if the flag is set, else
\* set it and start a new worker thread; the block's end releases the lock.
bi_start_market_updates_body ==
    /\ market_update_lock = StartCall
    /\ IF market_update_running
       THEN UNCHANGED <<market_update_running, wpc>>
       ELSE /\ market_update_running' = TRUE
            /\ wpc' = [wpc EXCEPT ![CHOOSE w \in FreeThreads :
                                       \A v \in FreeThreads : w <= v] = "loop"]
    /\ market_update_lock' = NoThread
    /\ UNCHANGED <<snapshot_vars, local_vars, market_vars, user_balance,
                   spot_vars, user_contracts, store_vars, next_position_id,
                   time_vars, last>>

\* bi_stop_market_updates enters `with market_update_lock`.
bi_stop_market_updates_enter ==
    /\ market_update_lock = NoThread
    /\ market_update_lock' = StopCall
    /\ UNCHANGED <<snapshot_vars, market_update_running, wpc, local_vars,
                   market_vars, user_balance, spot_vars, user_contracts,
                   store_vars, next_position_id, time_vars, last>>

\* bi_stop_market_updates inside its block: clear the flag; the block's end
\* releases the lock.  No thread is joined.
bi_stop_market_updates_body ==
    /\ market_update_lock = StopCall
    /\ market_update_running' = FALSE
    /\ market_update_lock' = NoThread
    /\ UNCHANGED <<snapshot_vars, wpc, local_vars, market_vars, user_balance,
                   spot_vars, user_contracts, store_vars, next_position_id,
                   time_vars, last>>

\* The steps of a tick over an empty store, with the two calls under the
\* lock apart; the tick's draw is the one that leaves each price where it is
\* (the shocks of the events move it).
WorkerWaitSteps(w) ==
    \/ WorkerLoop(w)
    \/ WorkerSleep(w)
    \/ WorkerVolatility(w)
    \/ WorkerPrices(w) /\ market_prices' = market_prices
    \/ WorkerOrdersMatch(w)
    \/ WorkerOrdersAssign(w)
    \/ WorkerLiqRead(w)
    \/ WorkerFunding(w)
    \/ WorkerEvent(w)

\* The threads that use the lock, each step by step: the workers' ticks,
\* the exceptions raised inside their locked block, the event threads, the
\* calls that start and stop the scheduler, and the groups' messages that
\* let an event start.
NextWait ==
    \/ \E w \in Workers : WorkerWaitSteps(w)
    \/ \E w \in Workers : market_update_lock = w /\ WorkerRaise(w)
    \/ \E w \in Workers : WorkerExcept(w)
    \/ \E g \in WHITELIST_SESSIONS : update_group_activity(g)
    \/ EventEnter
    \/ EventShock
    \/ bi_start_market_updates_enter
    \/ bi_start_market_updates_body
    \/ bi_stop_market_updates_enter
    \/ bi_stop_market_updates_body

\* Every thread that can take a step is scheduled (a worker, an event thread
\* and a call inside its block run on; a raise is not owed).  A thread blocked
\* in acquire() is woken when the lock is released, and whoever released it
\* does not ask for it again before its sleep is over: a thread that finds
\* the lock free again and again gets it.  Calls to start and to stop keep
\* arriving.
SpecWait ==
    /\ InitStored({<<>>}, {20})
    /\ [][NextWait]_vars
    /\ \A w \in Workers : WF_vars(WorkerWaitSteps(w))
    /\ \A w \in Workers : WF_vars(WorkerExcept(w))
    /\ \A w \in Workers : SF_vars(WorkerSleep(w))
    /\ SF_vars(EventEnter)
    /\ WF_vars(EventShock)
    /\ SF_vars(bi_start_market_updates_enter)
    /\ WF_vars(bi_start_market_updates_body)
    /\ SF_vars(bi_stop_market_updates_enter)
    /\ WF_vars(bi_stop_market_updates_body)

\* Everything together.
Next ==
    \/ bi_start_market_updates
    \/ bi_stop_market_updates
    \/ \E w \in Workers :
          WorkerTick(w) \/ WorkerOrdersAssign(w) \/ WorkerLiqStep(w)
    \/ ContractCommand
    \/ \E user_id \in Users, coin \in CoinArgs, amount \in SpotAmountArgs,
          price \in LimitArgs :
           \/ bi_buy(user_id, coin, amount, price)
           \/ bi_sell(user_id, coin, amount, price)
    \/ TimePasses
    \/ \E g \in WHITELIST_SESSIONS : update_group_activity(g)
    \/ EventApply
    \/ save_bi_data
    \/ load_bi_data
    \/ ProcessRestart
    \/ \E w \in Workers : WorkerExcept(w) \/ WorkerRaise(w)
    \/ \E w \in Workers : WorkerVolatility(w) \/ WorkerPrices(w)
    \/ EventEnter
    \/ EventShock
    \/ \E w \in Workers : WorkerFundingTest(w) \/ WorkerFundingApply(w)
    \/ \E w \in Workers : WorkerEventTest(w) \/ WorkerEventStart(w)
    \/ generate_event_with_llm
    \/ EventLock
    \/ EventChange
    \/ send_event_to_groups
    \/ bi_start_market_updates_enter
    \/ bi_start_market_updates_body
    \/ bi_stop_market_updates_enter
    \/ bi_stop_market_updates_body

Spec == Init /\ [][Next]_vars

(***************************************************************************)
(* Properties                                                              *)
(***************************************************************************)
\* C1: for any sequence of start and stop calls, at most one worker is
\* executing a tick (it is past its sleep, somewhere between the price
\* update and the event trigger) at any time.
C1_AtMostOneWorkerTicking ==
    Cardinality({w \in Workers :
        wpc[w] \in {"update", "orders", "orders_assign", "liq", "liq_loop",
                    "funding", "event"}}) <= 1

\* C2: once stop has returned, and for as long as the flag it cleared stays
\* cleared, no worker starts a new tick: no worker leaves its sleep for the
\* price update while market_update_running is false.
C2_NoTickStartsAfterStop ==
    [][\A w \in Workers :
          (~market_update_running /\ wpc[w] = "sleep") => wpc'[w] # "update"]_vars

\* C3: a position row whose status is closed or liquidated keeps that status
\* in every later step, whatever the interleaving of a close with a sweep.
C3_StatusFinalOnceNotOpen ==
    [][\A id \in PositionIds :
          StatusOf(id) \in {"closed", "liquidated"}
              => StatusOf(id)' = StatusOf(id)]_vars

\* C4: whatever sweeps have run, the store holds at most one liquidation
\* record per position id.
C4_OneLiquidationRecord ==
    \A id \in PositionIds : SeqCount(contract_liquidations, id) <= 1

\* C5: no step that takes a liquidated position out of its owner's cache (the
\* owner closing it) increases the owner's balance.
C5_NoCreditAfterLiquidation ==
    [][\A u \in Users, id \in PositionIds :
          ( /\ StatusOf(id) = "liquidated"
            /\ CacheIndex(user_contracts[u], id) # 0
            /\ CacheIndex(user_contracts'[u], id) = 0 )
              => user_balance'[u] <= user_balance[u]]_vars

\* C6: a close that succeeds in the store (it adds the closed-position record)
\* is made by the owner on a row that was open; it credits the owner exactly
\* margin + pnl - close fee, pnl and fee computed at the current price, and
\* nobody else; the row becomes closed; the record carries that price, pnl and
\* fee and is the only one of the position; the cache entry is gone.
C6_SuccessfulClose ==
    [][\A id \in PositionIds :
          /\ SeqCount(contract_history', id) <= 1
          /\ SeqCount(contract_history', id) > SeqCount(contract_history, id) =>
               \E u \in Users :
                 LET i == CacheIndex(user_contracts[u], id) IN
                 /\ i # 0
                 /\ LET position == user_contracts[u][i]
                        current_price == market_prices[position.coin]
                        pnl == IF position.direction = "long"
                               THEN ((position.margin * position.leverage)
                                        \div position.entry_price)
                                    * (current_price - position.entry_price)
                               ELSE ((position.margin * position.leverage)
                                        \div position.entry_price)
                                    * (position.entry_price - current_price)
                        close_fee == (position.amount * current_price
                                        * CONTRACT_FEE) \div 1000
                    IN /\ position.user_id = u
                       /\ user_balance' =
                              [user_balance EXCEPT
                                  ![u] = @ + position.margin + pnl - close_fee]
                       /\ contract_history'[Len(contract_history')] =
                              [position_id |-> id, close_price |-> current_price,
                               pnl |-> pnl, close_fee |-> close_fee]
                 /\ StatusOf(id) = "open"
                 /\ StatusOf(id)' = "closed"
                 /\ CacheIndex(user_contracts'[u], id) = 0
                 /\ last'.op = "close" /\ last'.result = "ok"]_vars

\* C6, its case: a close has succeeded in the store and was answered so.
C6_Witness ==
    /\ last.op = "close" /\ last.result = "ok" /\ last.store = "true"
    /\ \E id \in PositionIds :
          StatusOf(id) = "closed" /\ SeqCount(contract_history, id) = 1

\* C7: a close whose store call returned False (the write failed, or there
\* was no open row) is answered with a failure and leaves the balances and
\* the cache as they were.
C7_FailedCloseDidNotHappen ==
    [][(last' # last /\ last'.op = "close" /\ last'.store = "false")
          => /\ last'.result # "ok"
             /\ user_balance' = user_balance
             /\ user_contracts' = user_contracts]_vars

\* C8: an open whose store insert returned False is answered with a failure
\* and leaves the balances and the cache as they were.
C8_FailedOpenDidNotHappen ==
    [][(last' # last /\ last'.op = "open" /\ last'.store = "false")
          => /\ last'.result # "ok"
             /\ user_balance' = user_balance
             /\ user_contracts' = user_contracts]_vars

\* C9: an open whose amount * current price exceeds the maximum position
\* value creates nothing (every position a step creates has a value within
\* the maximum at the price of that step), and the step that answers
\* PositionValueExceeded leaves the balances, the cache, the store and the
\* id counter unchanged.
C9_OversizedOpenRejected ==
    [][/\ next_position_id' # next_position_id =>
            \A u \in Users : \A i \in 1..Len(user_contracts'[u]) :
                LET position == user_contracts'[u][i] IN
                position.position_id = next_position_id =>
                    position.amount * market_prices[position.coin]
                        <= CONTRACT_MAX_POSITION_VALUE
       /\ (last' # last /\ last'.result = "PositionValueExceeded") =>
            /\ last'.op = "open"
            /\ UNCHANGED <<user_balance, user_contracts, contract_positions,
                           contract_history, contract_liquidations,
                           contract_funding, next_position_id>>]_vars

\* C9, its case: an open was refused for its position value.
C9_Witness ==
    /\ last.op = "open" /\ last.result = "PositionValueExceeded"
    /\ \E r \in OpenArgs :
          r[1] \in COINS /\ r[3] * market_prices[r[1]] > CONTRACT_MAX_POSITION_VALUE

\* C10: a step that creates an order appends to one user's list an order
\* whose limit is strictly below (buy) or strictly above (sell) the asset's
\* price in that step, and the step that answers InvalidLimitPrice adds no
\* order.
C10_LimitPriceRule ==
    [][/\ next_order_id' # next_order_id =>
            \E u \in Users :
                /\ Len(pending_orders'[u]) = Len(pending_orders[u]) + 1
                /\ SubSeq(pending_orders'[u], 1, Len(pending_orders[u]))
                       = pending_orders[u]
                /\ LET order == pending_orders'[u][Len(pending_orders'[u])] IN
                   /\ order.order_id = next_order_id
                   /\ order.type = "buy" => order.price < market_prices[order.coin]
                   /\ order.type = "sell" => order.price > market_prices[order.coin]
       /\ (last' # last /\ last'.result = "InvalidLimitPrice") =>
            /\ pending_orders' = pending_orders
            /\ next_order_id' = next_order_id]_vars

\* C10, its case: an order is pending and a limit price has been refused.
C10_Witness ==
    /\ last.result = "InvalidLimitPrice"
    /\ \E u \in Users : pending_orders[u] # <<>>

\* C11: in a matching pass over a user's list that holds one buy order, not
\* expired at the clock the pass read: the order fires exactly when the price
\* is <= its limit price and the balance covers amount * limit * 1.001 (an
\* order the balance cannot cover is discarded, section 4.3).  When it fires
\* the holding grows by the amount, the cost basis by amount * limit, the
\* balance falls by amount * limit * 1.001 (the limit price, not the tick
\* price), and the order is not among those the pass keeps.  When the price is
\* above the limit nothing of the user changes and the order is kept.
C11_BuyOrderFires ==
    [][\A w \in Workers :
          (wpc[w] = "orders" /\ wpc'[w] = "orders_assign") =>
            LET u == Head(order_users[w])
                o == pending_orders[u][1]
                limit_cost == o.amount * o.price
                              + (o.amount * o.price) \div 1000
                holding == user_assets[u][o.coin]
            IN ( /\ Len(pending_orders[u]) = 1
                 /\ o.type = "buy"
                 /\ o.expires_at >= current_time[w] ) =>
                 /\ ( market_prices[o.coin] <= o.price
                      /\ user_balance[u] >= limit_cost ) =>
                        /\ user_balance'[u] = user_balance[u] - limit_cost
                        /\ user_assets'[u][o.coin] =
                               [amount |-> holding.amount + o.amount,
                                total_cost |-> holding.total_cost
                                                 + o.amount * o.price]
                        /\ remaining_orders'[w] = <<>>
                 /\ market_prices[o.coin] > o.price =>
                        /\ user_balance'[u] = user_balance[u]
                        /\ user_assets'[u] = user_assets[u]
                        /\ remaining_orders'[w] = <<o>>
                 /\ user_assets'[u] # user_assets[u] =>
                        /\ market_prices[o.coin] <= o.price
                        /\ user_balance[u] >= limit_cost]_vars

\* C11, its case: a buy order has fired below its limit price: the user
\* holds the asset at a cost basis that is not the current price, and no
\* order of the user is pending.
C11_Witness ==
    \E u \in Users, c \in COINS :
        /\ user_assets[u][c].amount = 1
        /\ user_assets[u][c].total_cost > market_prices[c]
        /\ user_balance[u] = INITIAL_BALANCE - user_assets[u][c].total_cost
                                - user_assets[u][c].total_cost \div 1000
        /\ pending_orders[u] = <<>>

\* C12: every price is at least 0.01 in every state, and every step that
\* changes a price (a tick of the scheduler or an event shock) leaves it at
\* least 0.01.
C12_PriceFloor ==
    /\ [](\A c \in COINS : market_prices[c] >= PRICE_FLOOR)
    /\ [][\A c \in COINS :
            market_prices'[c] # market_prices[c]
                => market_prices'[c] >= PRICE_FLOOR]_vars

\* C12, its case: the floor has been applied: a price stands at 0.01 after
\* a tick or an event shock.
C12_Witness ==
    \E c \in COINS : market_prices[c] = PRICE_FLOOR

C15_DecayReachesZero ==
    <>(\A c \in COINS : liquidity_pressure[c] = 0)

\* C15, amended: with decay-only ticks, from any pressure in [-0.5, 0.5], no
\* tick increases the magnitude of the pressure or changes its sign, the
\* magnitude is eventually below 0.01 and stays there, and a pressure that
\* is not 0 never becomes 0.
C15_DecayNeverZero ==
    /\ [][\A c \in COINS :
            /\ liquidity_pressure[c] > 0 =>
                   /\ liquidity_pressure'[c] > 0
                   /\ liquidity_pressure'[c] <= liquidity_pressure[c]
            /\ liquidity_pressure[c] < 0 =>
                   /\ liquidity_pressure'[c] < 0
                   /\ liquidity_pressure'[c] >= liquidity_pressure[c]
            /\ liquidity_pressure[c] = 0 => liquidity_pressure'[c] = 0]_vars
    /\ <>[](\A c \in COINS :
              liquidity_pressure[c] > -10 /\ liquidity_pressure[c] < 10)

\* C15, its case: ticks have decayed a pressure to less than 0.01, and it is
\* not 0.
C15_Witness ==
    \E c \in COINS :
        /\ liquidity_pressure[c] # 0
        /\ liquidity_pressure[c] > -10 /\ liquidity_pressure[c] < 10

\* C16: for the open positions of the store at the current price, the
\* funding rate of an asset is 0 when the long and the short notional are
\* equal (both 0 included), positive when the long notional is greater,
\* negative when the short notional is greater, and within [-0.001, 0.001];
\* every rate a settlement has recorded is within that range and not 0.
C16_FundingRateSign ==
    /\ \A c \in COINS :
          LET positions == get_all_open_positions
              long_notional == Notional(positions, c, "long", market_prices[c])
              short_notional == Notional(positions, c, "short", market_prices[c])
              rate == calculate_funding_rate(c, positions)
          IN /\ rate.den > 0
             /\ long_notional = short_notional => rate.num = 0
             /\ long_notional > short_notional => rate.num > 0
             /\ long_notional < short_notional => rate.num < 0
             /\ rate.num <= rate.den /\ 0 - rate.den <= rate.num
    /\ \A i \in 1..Len(contract_funding) :
          LET rate == contract_funding[i].rate
          IN /\ rate.num # 0 /\ rate.den > 0
             /\ rate.num <= rate.den /\ 0 - rate.den <= rate.num

\* C16, its case: a settlement has run over a long and a short position of
\* equal notional and has paid nothing.
C16_Witness ==
    /\ last_funding_rate_time > INACTIVITY_THRESHOLD
    /\ contract_funding = <<>>
    /\ store_failures = 0
    /\ \E c \in COINS :
          /\ Notional(get_all_open_positions, c, "long", market_prices[c]) > 0
          /\ Notional(get_all_open_positions, c, "long", market_prices[c])
               = Notional(get_all_open_positions, c, "short", market_prices[c])

\* C17: every position opened at an entry price with a leverage in 1..100
\* has the liquidation price entry * (1 - 0.9 / leverage) if it is a long and
\* entry * (1 + 0.9 / leverage) if it is a short, to the unit of the model
\* (entry 100, leverage 10: 91 long, 109 short); a long's liquidation price
\* is strictly below and a short's strictly above the entry price.
C17_LiquidationPrice ==
    \A u \in Users : \A i \in 1..Len(user_contracts[u]) :
        LET position == user_contracts[u][i]
            entry == position.entry_price
            leverage == position.leverage
            liquidation_price == position.liquidation_price
            exact == IF position.direction = "long"
                     THEN entry * (10 * leverage - 9)
                     ELSE entry * (10 * leverage + 9)
        IN /\ leverage \in 1..100
           /\ liquidation_price * 10 * leverage <= exact
           /\ exact < (liquidation_price + 1) * 10 * leverage
           /\ position.direction = "long" => liquidation_price < entry
           /\ position.direction = "short" => liquidation_price > entry
           /\ (entry = 100000 /\ leverage = 10) =>
                  liquidation_price = IF position.direction = "long"
                                      THEN 91000 ELSE 109000

\* C17, its case: a short has been opened at price 100 with leverage 10.
C17_Witness ==
    \E u \in Users : \E i \in 1..Len(user_contracts[u]) :
        /\ user_contracts[u][i].direction = "short"
        /\ user_contracts[u][i].entry_price = 100000
        /\ user_contracts[u][i].leverage = 10
        /\ user_contracts[u][i].liquidation_price = 109000

\* C18: for every cached position and every price level, the profit
\* calculate_position_pnl returns is margin * leverage * (price - entry) /
\* entry for a long and margin * leverage * (entry - price) / entry for a
\* short, rounded toward 0 to the unit of the model (entry 100, margin 100,
\* leverage 10, long: +100 at 110 and -100 at 90); at the position's own
\* liquidation price it is -0.9 * margin, to the rounding of that price; and
\* the profit a close records is the one at the price of the close.
C18_PositionPnl ==
    [][/\ \A u \in Users : \A i \in 1..Len(user_contracts[u]) :
            LET position == user_contracts[u][i]
                entry == position.entry_price \div 1000
                long == position.direction = "long"
                at_liquidation ==
                    calculate_position_pnl(position, position.liquidation_price)
            IN /\ \A price \in {q \in PriceLevels : q % 1000 = 0} :
                    LET difference == IF long
                                      THEN price \div 1000 - entry
                                      ELSE entry - price \div 1000
                        exact == position.margin * position.leverage * difference
                        pnl == calculate_position_pnl(position, price)
                    IN IF exact >= 0
                       THEN pnl * entry <= exact /\ exact < (pnl + 1) * entry
                       ELSE (pnl - 1) * entry < exact /\ exact <= pnl * entry
               /\ 10 * at_liquidation + 9 * position.margin
                      < 10 * (position.amount + 1)
               /\ 10 * at_liquidation + 9 * position.margin
                      > 0 - 10 * (position.amount + 1)
               /\ ( long /\ position.entry_price = 100000
                          /\ position.margin = 100000
                          /\ position.leverage = 10 ) =>
                      /\ calculate_position_pnl(position, 110000) = 100000
                      /\ calculate_position_pnl(position, 90000) = -100000
       /\ Len(contract_history') > Len(contract_history) =>
            \E u \in Users : \E i \in 1..Len(user_contracts[u]) :
                LET position == user_contracts[u][i]
                    record == contract_history'[Len(contract_history')]
                IN /\ position.position_id = record.position_id
                   /\ record.close_price = market_prices[position.coin]
                   /\ record.pnl =
                          calculate_position_pnl(position, record.close_price)]_vars

\* C18, its case: a position opened at 100 with margin 100 and leverage 10
\* has been closed away from its entry price, with a profit or a loss.
C18_Witness ==
    \E i \in 1..Len(contract_history) : \E k \in 1..Len(contract_positions) :
        /\ contract_positions[k].position_id = contract_history[i].position_id
        /\ contract_positions[k].entry_price = 100000
        /\ contract_positions[k].margin = 100000
        /\ contract_positions[k].leverage = 10
        /\ contract_history[i].pnl # 0

\* C19: a load of the file gives every user of the file who has no entries
\* in memory the balance, the holdings (amount and total cost of every asset)
\* and the pending orders (every field, created_at and expires_at included)
\* the user had when the file was saved, and leaves the entries of every
\* other user, those with entries in memory first of all, as they were.
C19_SnapshotRoundTrip ==
    [][load_bi_data =>
          /\ saved.exists
          /\ \A u \in Users :
                IF u \notin resident /\ u \in DOMAIN saved.user_balance
                THEN /\ user_balance'[u] = saved.user_balance[u]
                     /\ user_assets'[u] = saved.user_assets[u]
                     /\ pending_orders'[u] = saved.pending_orders[u]
                ELSE /\ user_balance'[u] = user_balance[u]
                     /\ user_assets'[u] = user_assets[u]
                     /\ pending_orders'[u] = pending_orders[u]]_vars

\* C19, its case: after a process start and before any command, a user has
\* a holding and a pending order again, the other user has entries too, and
\* they are those of the save.
C19_Witness ==
    /\ last.op = "none"
    /\ resident = Users
    /\ \E u \in Users, c \in COINS :
          /\ pending_orders[u] # <<>>
          /\ pending_orders[u][1].created_at % 86400 # 0
          /\ user_assets[u][c].amount > 0
          /\ pending_orders[u] = saved.pending_orders[u]

\* C20: an exception in a step of a tick puts the worker in the except
\* clause of its loop and never ends it: from the except clause the worker
\* goes back to the test of the loop, and, unless the running flag is
\* cleared, it eventually runs the price update of another tick.
C20_WorkerSurvivesException ==
    /\ [][\A w \in Workers :
            /\ (wpc[w] \in TickSteps /\ wpc'[w] \notin TickSteps)
                   => wpc'[w] \in {"except", "loop"}
            /\ (wpc[w] = "except" /\ wpc'[w] # "except")
                   => wpc'[w] = "loop"]_vars
    /\ \A w \in Workers :
          (wpc[w] = "except") ~>
              (wpc[w] = "update" \/ ~market_update_running)

\* C20, its case: the funding settlement has raised for a stored position
\* whose user has no balance entry, the worker is in the except clause and
\* the flag is set.
C20_Witness ==
    \E w \in Workers :
        /\ wpc[w] = "except"
        /\ market_update_running
        /\ last_funding_rate_time = now
        /\ now > INACTIVITY_THRESHOLD
        /\ \E i \in 1..Len(contract_positions) :
              contract_positions[i].user_id \notin resident

\* C21: a worker that has made the price update of a tick (it is in the order
\* matching) leaves the order matching only into the liquidation sweep of the
\* same tick, so no tick with a price update goes without a sweep before the
\* worker's next price update, a tick whose order matching raises included.
C21_SweepEveryTick ==
    [][\A w \in Workers :
          wpc[w] \in {"orders", "orders_assign"}
              => wpc'[w] \in {"orders", "orders_assign", "liq"}]_vars

\* C22: a worker is inside `with market_update_lock` exactly while it is at
\* the volatility update or the price update; a tick starts at the
\* volatility update, goes from each call to the same or the next one in the
\* order volatility update, price update, order matching, liquidation sweep,
\* funding settlement, event trigger, and ends after the event trigger; the
\* volatility changes only in the step from the first call to the second and
\* a worker changes the price only in the step that ends the locked block.
C22_TickOrder ==
    /\ [](\A w \in Workers :
            wpc[w] \in {"update", "prices"} <=> market_update_lock = w)
    /\ [][\A w \in Workers :
            /\ (wpc[w] \in TickSteps /\ wpc'[w] \in TickSteps)
                  => \/ TickOrder(wpc'[w]) = TickOrder(wpc[w])
                     \/ TickOrder(wpc'[w]) = TickOrder(wpc[w]) + 1
            /\ (wpc[w] \notin TickSteps /\ wpc'[w] \in TickSteps)
                  => wpc'[w] = "update"
            /\ (wpc[w] \in TickSteps /\ wpc'[w] \notin TickSteps)
                  => (wpc[w] = "event" /\ wpc'[w] = "loop")
            /\ (wpc[w] = "update" /\ wpc'[w] # "update")
                  => wpc'[w] = "prices"
            /\ (wpc[w] = "prices" /\ wpc'[w] # "prices")
                  => (wpc'[w] = "orders" /\ market_update_lock' = NoThread)]_vars
    /\ [][(current_volatility' # current_volatility)
            => \E w \in Workers : wpc[w] = "update" /\ wpc'[w] = "prices"]_vars
    /\ [][(market_prices' # market_prices /\ market_update_lock # EventThread)
            => \E w \in Workers : wpc[w] = "prices" /\ wpc'[w] = "orders"]_vars

\* C22, its case: a worker has gone through a tick with an order filled and
\* a position swept and is at the event trigger, after an earlier tick.
C22_Witness ==
    \E w \in Workers :
        /\ wpc[w] = "event"
        /\ market_update_lock = NoThread
        /\ contract_liquidations # <<>>
        /\ \E u \in Users, c \in COINS : user_assets[u][c].amount > 0
        /\ \A c \in COINS :
              current_volatility[c] =
                  (VOLATILITY_BASE[c] * VOLATILITY_MIN_RATIO) \div 100
        /\ last_funding_rate_time > INACTIVITY_THRESHOLD

\* C23: at most one thread is inside a block of market_update_lock: while a
\* worker is between the start of its volatility update and the end of its
\* price update no event thread is inside _apply_price_change, no two event
\* threads are inside it together, and the lock names the thread inside;
\* an event shock changes the price only in a step at which no worker is
\* inside its block.
C23_TickAndShockExclusive ==
    /\ [](/\ event_threads.inside <= 1
          /\ event_threads.inside = 1 <=> market_update_lock = EventThread
          /\ \A w \in Workers :
                wpc[w] \in {"update", "prices"}
                    => (event_threads.inside = 0 /\ market_update_lock = w)
          /\ \A v, w \in Workers :
                (wpc[v] \in {"update", "prices"} /\ wpc[w] \in {"update", "prices"})
                    => v = w)
    /\ [][(event_threads'.inside < event_threads.inside)
            => \A w \in Workers : wpc[w] \notin {"update", "prices"}]_vars

\* C23, its case: an event thread is inside its block while another event
\* thread and the worker, whose sleep is over, wait for the lock.
C23_Witness ==
    /\ event_threads.inside = 1
    /\ event_threads.started = 1
    /\ \E w \in Workers : wpc[w] = "sleep"

\* C24: the price, the volatility and the pressure change only in a step of
\* the thread that holds market_update_lock, and nothing changes the pressure
\* while a worker is inside its locked block except that worker.
C24_MutationUnderLock ==
    /\ [][(market_vars' # market_vars)
            => \/ \E w \in Workers :
                     /\ market_update_lock = w
                     /\ wpc[w] \in {"update", "prices"}
                     /\ wpc'[w] # wpc[w]
               \/ /\ market_update_lock = EventThread
                  /\ event_threads'.inside < event_threads.inside]_vars
    /\ [][(liquidity_pressure' # liquidity_pressure
             /\ market_update_lock \in Workers)
            => wpc'[market_update_lock] # wpc[market_update_lock]]_vars

\* C25: when the pass over a user's orders ends (the worker assigns the
\* user's pending list), every order of the list, those created since the
\* pass began included, that is not past its expiry at the time of the pass
\* and whose price condition is not met is in the list afterwards.
C25_UnfilledOrderStays ==
    [][\A w \in Workers :
          (wpc[w] = "orders_assign" /\ wpc'[w] # "orders_assign") =>
              LET user_id == Head(order_users[w])
                  orders == pending_orders[user_id]
              IN \A i \in 1..Len(orders) :
                    ( /\ ~(orders[i].expires_at < current_time[w])
                      /\ ~order_triggers(orders[i],
                                         market_prices[orders[i].coin]) )
                        => \E j \in 1..Len(pending_orders'[user_id]) :
                              pending_orders'[user_id][j] = orders[i]]_vars

\* C26: in the pass over a user's orders an order whose expires_at is before
\* the time of the pass is in neither the user's list nor the orders kept for
\* the next tick afterwards, met price condition or not; the balance and the
\* holdings of the user change in the pass only if some order of the list is
\* not past its expiry and has its price condition met; and the list the pass
\* leaves holds no order past its expiry.
C26_ExpiredNeverFills ==
    [][\A w \in Workers :
          /\ (wpc[w] = "orders" /\ wpc'[w] = "orders_assign") =>
                LET user_id == Head(order_users[w])
                    orders == pending_orders[user_id]
                    expired(o) == o.expires_at < current_time[w]
                IN /\ \A i \in 1..Len(orders) :
                         expired(orders[i]) =>
                            /\ \A j \in 1..Len(pending_orders'[user_id]) :
                                  pending_orders'[user_id][j] # orders[i]
                            /\ \A j \in 1..Len(remaining_orders'[w]) :
                                  remaining_orders'[w][j] # orders[i]
                   /\ ( \/ user_balance'[user_id] # user_balance[user_id]
                        \/ user_assets'[user_id] # user_assets[user_id] )
                         => \E i \in 1..Len(orders) :
                               /\ ~expired(orders[i])
                               /\ order_triggers(orders[i],
                                      market_prices[orders[i].coin])
          /\ (wpc[w] = "orders_assign" /\ wpc'[w] # "orders_assign") =>
                LET user_id == Head(order_users[w])
                IN \A j \in 1..Len(pending_orders'[user_id]) :
                      ~(pending_orders'[user_id][j].expires_at
                            < current_time[w])]_vars

\* C26, its case: the pass over the first user's orders has just dropped the
\* stored order, past its expiry, at a price that meets its condition,
\* without a fill.
C26_Witness ==
    \E w \in Workers :
        /\ wpc[w] = "orders_assign"
        /\ Head(order_users[w]) = UserOrder[1]
        /\ StoredOrder.expires_at < current_time[w]
        /\ order_triggers(StoredOrder, market_prices[StoredOrder.coin])
        /\ next_order_id = 1
        /\ pending_orders[UserOrder[1]] = <<>>
        /\ \A c \in COINS : user_assets[UserOrder[1]][c].amount = 0
        /\ user_balance[UserOrder[1]] = INITIAL_BALANCE

\* C27: when, in the pass over a user's orders, the only order that is not
\* past its expiry and has its price condition met fails its precondition
\* (buy: balance < amount * limit * (1 + BUY_FEE); sell: held amount < order
\* amount), the pass leaves the user's balance and holdings as they were and
\* does not keep the order; the list the pass assigns holds only kept orders;
\* and a pending list gains only orders that are new, so the order never
\* comes back.
C27_FailedPreconditionDiscards ==
    [][/\ \A w \in Workers :
            /\ (wpc[w] = "orders" /\ wpc'[w] = "orders_assign") =>
                 LET user_id == Head(order_users[w])
                     orders == pending_orders[user_id]
                     ready(o) ==
                        /\ ~(o.expires_at < current_time[w])
                        /\ order_triggers(o, market_prices[o.coin])
                     fails(o) ==
                        IF o.type = "buy"
                        THEN user_balance[user_id] <
                                o.amount * o.price
                                  + (o.amount * o.price * BUY_FEE) \div 1000
                        ELSE user_assets[user_id][o.coin].amount < o.amount
                 IN \A i \in 1..Len(orders) :
                       ( /\ ready(orders[i])
                         /\ fails(orders[i])
                         /\ \A k \in 1..Len(orders) :
                               ready(orders[k]) => k = i )
                         => /\ user_balance'[user_id] = user_balance[user_id]
                            /\ user_assets'[user_id] = user_assets[user_id]
                            /\ \A j \in 1..Len(remaining_orders'[w]) :
                                  remaining_orders'[w][j] # orders[i]
            /\ (wpc[w] = "orders_assign" /\ wpc'[w] # "orders_assign") =>
                 pending_orders'[Head(order_users[w])] = remaining_orders[w]
       /\ \A u \in Users :
            \A j \in 1..Len(pending_orders'[u]) :
                \/ \E i \in 1..Len(pending_orders[u]) :
                      pending_orders[u][i] = pending_orders'[u][j]
                \/ pending_orders'[u][j].order_id = next_order_id]_vars

\* C27, its case: the pass over a user has just met an order to sell more
\* than the user holds, at a price that meets its condition, and keeps
\* nothing; the balance is untouched.
C27_Witness ==
    \E w \in Workers :
        /\ wpc[w] = "orders_assign"
        /\ remaining_orders[w] = <<>>
        /\ LET user_id == Head(order_users[w])
               orders == pending_orders[user_id]
           IN /\ Len(orders) = 1
              /\ order_triggers(orders[1], market_prices[orders[1].coin])
              /\ orders[1].type = "sell"
              /\ user_assets[user_id][orders[1].coin].amount < orders[1].amount
              /\ user_balance[user_id] = INITIAL_BALANCE

\* C28: every step in which a user's holding of an asset grows (a buy is
\* carried out, at once or as the fill of an order) or shrinks (a sell)
\* changes the asset's pressure by min(amount * price * 0.0001, 0.05), up for
\* a buy and down for a sell, within the range of the pressure.
C28_EveryTradeMovesPressure ==
    [][\A u \in Users, c \in COINS :
          user_assets'[u][c].amount # user_assets[u][c].amount =>
             LET bought == user_assets'[u][c].amount - user_assets[u][c].amount
                 trade_value == Abs(bought) * market_prices[c]
                 impact == Min(trade_value \div LIQUIDITY_IMPACT_FACTOR,
                               LIQUIDITY_MAX_IMPACT)
                 moved == IF bought > 0 THEN liquidity_pressure[c] + impact
                          ELSE liquidity_pressure[c] - impact
             IN liquidity_pressure'[c] =
                    Max(0 - LIQUIDITY_MAX_PRESSURE,
                        Min(LIQUIDITY_MAX_PRESSURE, moved))]_vars

\* C29: every user's holding of every asset has an amount of at least 0 and
\* a total cost of at least 0, whatever amounts and prices buy and sell were
\* called with.
C29_HoldingsNonNegative ==
    \A u \in Users, c \in COINS :
        /\ user_assets[u][c].amount >= 0
        /\ user_assets[u][c].total_cost >= 0

\* C30: funding records are written only when every funding record written
\* before is at least CONTRACT_FUNDING_RATE_INTERVAL old, so two settlements
\* that pay are at least the interval apart; and a worker that reaches the
\* funding settlement before the interval since last_funding_rate_time has
\* passed goes on to the event trigger with every balance and the funding
\* table as they were.
C30_FundingInterval ==
    /\ [][Len(contract_funding') > Len(contract_funding)
            => \A i \in 1..Len(contract_funding) :
                  now - contract_funding[i].paid_at
                      >= CONTRACT_FUNDING_RATE_INTERVAL]_vars
    /\ [][\A w \in Workers :
            ( /\ wpc[w] = "funding"
              /\ wpc'[w] # "funding"
              /\ now - last_funding_rate_time
                     < CONTRACT_FUNDING_RATE_INTERVAL )
                => /\ wpc'[w] = "event"
                   /\ user_balance' = user_balance
                   /\ contract_funding' = contract_funding
                   /\ last_funding_rate_time' = last_funding_rate_time]_vars

\* C31: in a funding settlement whose rate is not zero (the store answers),
\* every open position of the asset gets exactly one funding record and its
\* owner's balance changes by the magnitude of position value * rate; with a
\* positive rate a long's balance goes down and a short's goes up, with a
\* negative rate a short's goes down and a long's goes up; and the record's
\* payment_type is "pay" exactly when the balance went down.  (Every stored
\* position has an owner of its own, so a balance change is one position's.)
C31_FundingPayments ==
    [][\A w \in Workers :
         LET coin == CHOOSE c \in COINS : TRUE
             positions == get_all_open_positions
             funding_rate == calculate_funding_rate(coin, positions)
             new == SubSeq(contract_funding', Len(contract_funding) + 1,
                           Len(contract_funding'))
         IN ( /\ wpc[w] = "funding"
              /\ wpc'[w] # "funding"
              /\ last_funding_rate_time' # last_funding_rate_time
              /\ store_failures' = store_failures
              /\ funding_rate.num # 0 )
            => \A i \in 1..Len(positions) :
                 LET position == positions[i]
                     fee == funding_fee(position, get_coin_price(coin),
                                        funding_rate)
                     records == {j \in 1..Len(new) :
                                   new[j].position_id = position.position_id}
                     change == user_balance'[position.user_id]
                                 - user_balance[position.user_id]
                 IN position.coin = coin =>
                      /\ Cardinality(records) = 1
                      /\ Abs(change) = Abs(fee)
                      /\ (funding_rate.num > 0 /\ fee # 0) =>
                            IF position.direction = "long"
                            THEN change < 0 ELSE change > 0
                      /\ (funding_rate.num < 0 /\ fee # 0) =>
                            IF position.direction = "short"
                            THEN change < 0 ELSE change > 0
                      /\ \A j \in records :
                            fee # 0 =>
                              (new[j].payment_type = "pay" <=> change < 0)]_vars

RECURSIVE BalanceSum(_, _)
\* The sum of the balances of the users in the sequence `users`.
BalanceSum(users, balance) ==
    IF users = <<>> THEN 0
    ELSE balance[Head(users)] + BalanceSum(Tail(users), balance)

\* C32: a funding settlement is a transfer: the balance changes it makes
\* add up to zero over all users (there is one asset, so "for each asset" is
\* the whole settlement).
C32_FundingIsTransfer ==
    [][\A w \in Workers :
         ( /\ wpc[w] = "funding"
           /\ wpc'[w] # "funding"
           /\ last_funding_rate_time' # last_funding_rate_time )
            => BalanceSum(UserOrder, user_balance')
                 = BalanceSum(UserOrder, user_balance)]_vars

\* C33 as stated: no step lowers the dynamic mean of any asset.
C33_MeanNeverFalls ==
    [][\A c \in COINS :
         (dynamic_means[c] # AnyMean /\ dynamic_means'[c] # AnyMean)
            => dynamic_means'[c] >= dynamic_means[c]]_vars

\* C33, amended: every tick raises the dynamic mean of every asset, by
\* INITIAL_PRICES * MEAN_GROWTH_RATE, and the only step that lowers a dynamic
\* mean is an event shock with a negative change, which multiplies it by
\* 1 + change_percent.
C33_MeanFallsOnlyInNegativeShock ==
    [][\A c \in COINS :
         (dynamic_means[c] # AnyMean /\ dynamic_means'[c] # AnyMean)
            => /\ (\E w \in Workers : wpc[w] \in {"update", "prices"}
                                        /\ wpc'[w] = "orders")
                    => /\ dynamic_means'[c] > dynamic_means[c]
                       /\ dynamic_means'[c] - dynamic_means[c]
                            = (INITIAL_PRICES[c] * MEAN_GROWTH_RATE) \div 1000
               /\ dynamic_means'[c] < dynamic_means[c]
                    => /\ \/ event_threads'.started < event_threads.started
                          \/ event_threads'.inside < event_threads.inside
                       /\ \E change_percent \in EventChanges :
                             /\ change_percent < 0
                             /\ dynamic_means'[c] * 1000
                                  = dynamic_means[c] * (1000 + change_percent)]_vars

\* A tick has raised the mean from the initial one and a negative shock has
\* then lowered it.
C33_Witness ==
    \E c \in COINS, change_percent \in EventChanges :
        /\ change_percent < 0
        /\ dynamic_means[c]
             = mean_shift(mean_growth(c, INITIAL_PRICES[c]), change_percent)
        /\ dynamic_means[c] < INITIAL_PRICES[c]

\* C34: an event shock leaves the ratio price / dynamic mean of the asset as
\* it was (the two fractions are equal in lowest terms).
C34_ShockKeepsRatio ==
    [][\A c \in COINS :
         ( /\ \/ event_threads'.started < event_threads.started
              \/ event_threads'.inside < event_threads.inside
           /\ market_prices'[c] # market_prices[c]
                 \/ dynamic_means'[c] # dynamic_means[c]
           /\ dynamic_means[c] # AnyMean
           /\ dynamic_means'[c] # AnyMean )
            => Fraction(market_prices'[c], dynamic_means'[c])
                 = Fraction(market_prices[c], dynamic_means[c])]_vars

C36_EventGate ==
    [][event_threads'.started > event_threads.started
         => /\ last_event_time' - last_event_time >= EVENT_COOLDOWN
            /\ \E g \in WHITELIST_SESSIONS :
                  last_event_time' - group_last_activity[g]
                      < INACTIVITY_THRESHOLD]_vars

\* C37: the decay of a tick moves every pressure toward 0 and not past it:
\* the pressure keeps its sign or becomes 0, its magnitude does not grow and
\* is 0.9 of the magnitude before (to half a unit of the representation, a
\* whole permille here), and a pressure of 0 stays 0.
C37_DecayTowardZero ==
    [][\A c \in COINS :
         (\E w \in Workers : wpc[w] \in {"update", "prices"}
                               /\ wpc'[w] = "orders")
            => LET before == liquidity_pressure[c]
                   after == liquidity_pressure'[c]
               IN /\ before > 0 => after >= 0
                  /\ before < 0 => after <= 0
                  /\ before = 0 => after = 0
                  /\ Abs(after) <= Abs(before)
                  /\ Abs(10 * Abs(after) - 9 * Abs(before)) <= 5]_vars

\* Two ticks have decayed a negative pressure, and it is still negative and
\* smaller in magnitude.
C37_Witness ==
    \E c \in COINS, pressure \in PressureStarts :
        /\ pressure < 0
        /\ liquidity_pressure[c] = decay(decay(pressure))
        /\ liquidity_pressure[c] < 0
        /\ liquidity_pressure[c] > pressure

\* The row of position `id` in the store is open and is user u's.
OpenRowOf(u, id) ==
    \E i \in 1..Len(contract_positions) :
        /\ contract_positions[i].position_id = id
        /\ contract_positions[i].status = "open"
        /\ contract_positions[i].user_id = u

\* C38: bi_contract_close called by the owner of a position that is open in
\* the store is not answered with PositionNotFound, whatever the cache
\* holds.
C38_OwnerCanClose ==
    [][\A u \in Users, id \in PositionIds :
         (OpenRowOf(u, id) /\ bi_contract_close(u, id))
            => last'.result # "PositionNotFound"]_vars

\* C39: bi_contract_close called with the id of a position of another user
\* is answered with PositionNotFound and leaves every balance, every cache
\* and the store as they were.
C39_CloseOnlyOwn ==
    [][\A u \in Users, v \in Users, id \in PositionIds :
         ( /\ u # v
           /\ \E i \in 1..Len(contract_positions) :
                 /\ contract_positions[i].position_id = id
                 /\ contract_positions[i].user_id = v
           /\ bi_contract_close(u, id) )
            => /\ last'.op = "close"
               /\ last'.result = "PositionNotFound"
               /\ user_balance' = user_balance
               /\ user_contracts' = user_contracts
               /\ contract_positions' = contract_positions
               /\ contract_history' = contract_history
               /\ contract_liquidations' = contract_liquidations]_vars

\* A close has been answered with PositionNotFound while every position id
\* was open in the store and cached for its owner: the owner's close would
\* have found it, so the call was another user's.
C39_Witness ==
    /\ last.op = "close"
    /\ last.result = "PositionNotFound"
    /\ \E v \in Users :
          \A id \in PositionIds :
              /\ OpenRowOf(v, id)
              /\ CacheIndex(user_contracts[v], id) # 0

=============================================================================
